---- MODULE Spec2Model ----
(***************************************************************************)
(* frps: the rendezvous server of the reverse tunnel.                      *)
(*                                                                         *)
(* State machine of src/frps/src/main.rs: the control sessions             *)
(* (handle_single_client, client_loop), the public request router          *)
(* (route_public_connection), the proxy listener                           *)
(* (handle_proxy_connections) and the administrative disconnect            *)
(* (disconnect_client), sharing the client registry (active_clients) and   *)
(* the pairing table (pending_connections).  A task is split into actions  *)
(* at the points where it can be suspended while other tasks run: message  *)
(* reads, and socket writes made while the registry mutex is held.         *)
(***************************************************************************)
EXTENDS Integers, Sequences, FiniteSets, TLC

\* ------------------------------------------------------------------ bounds

\* Control connections accepted by handle_control_connections.
NumConns == 2

\* Public connections accepted by handle_public_connections.
NumRequests == 2

\* Proxy connections accepted by handle_proxy_connections.
NumProxyConns == 2

Conns == 1..NumConns
Requests == 1..NumRequests
ProxyConns == 1..NumProxyConns

\* ------------------------------------------------------- Option<T> values

None == {}
Some(x) == {x}
IsSome(o) == o # {}
Unwrap(o) == CHOOSE x \in o : TRUE

\* ------------------------------------------------------------ input values

ClientIds == {"a1", "a2"}
ModelIds == {"m1", "m2"}

\* Heartbeat { models: Option<Vec<Model>> }; a Vec<Model> is kept as the set
\* of the ids of its elements (only Model.id is ever read by the server).
Catalogs == {{"m1"}}
HeartbeatModels == {None} \cup {Some(cat) : cat \in Catalogs}

\* SystemInfo { cpu_usage, .. }: one non-zero reading stands for the metrics.
MetricValues == {7}

\* main: user_db holds one user.
user_db == [e \in {"test@example.com"} |-> [pass |-> "123456"]]

\* The rows of "public"."api_keys" that are active and not expired.
ApiKeysTable == {<<"db", 1>>}

\* ------------------------------------------------------------- characters

\* str::to_lowercase on the ASCII letters that occur in the inputs.
UpperToLower ==
    ("A" :> "a") @@ ("B" :> "b") @@ ("E" :> "e") @@ ("R" :> "r") @@
    ("U" :> "u") @@ ("T" :> "t") @@ ("H" :> "h") @@ ("O" :> "o") @@
    ("I" :> "i") @@ ("Z" :> "z") @@ ("N" :> "n") @@ ("K" :> "k") @@
    ("X" :> "x") @@ ("S" :> "s") @@ ("C" :> "c")

to_lowercase(s) ==
    [i \in 1..Len(s) |->
        IF s[i] \in DOMAIN UpperToLower THEN UpperToLower[s[i]] ELSE s[i]]

\* str::starts_with
starts_with(s, prefix) ==
    /\ Len(s) >= Len(prefix)
    /\ SubSeq(s, 1, Len(prefix)) = prefix

\* &s[n..]
slice_from(s, n) == SubSeq(s, n + 1, Len(s))

\* ---------------------------------------------------------------- Command

\* common::Command, the variants the server reads or writes.
Login(email, pass) == [type |-> "Login", email |-> email, pass |-> pass]
LoginByToken(token) == [type |-> "LoginByToken", token |-> token]
LoginResult(success, error, token) ==
    [type |-> "LoginResult", success |-> success, error |-> error, token |-> token]
Register(id) == [type |-> "Register", client_id |-> id]
RegisterResult(success, error) ==
    [type |-> "RegisterResult", success |-> success, error |-> error]
Heartbeat(models) == [type |-> "Heartbeat", models |-> models]
RequestNewProxyConn(id) == [type |-> "RequestNewProxyConn", proxy_conn_id |-> id]
NewProxyConn(id) == [type |-> "NewProxyConn", proxy_conn_id |-> id]

\* Uuid::new_v4() of the session token minted on connection c.
NewToken(c) == <<"session", c>>

\* What a client can send as the first message of a control connection.
FirstCommands ==
    {Login(e, p) : e \in {"test@example.com", "nobody@example.com"},
                   p \in {"123456", "wrong"}}
    \cup {LoginByToken(t) : t \in ApiKeysTable \cup {<<"db", 2>>}}
    \cup {LoginByToken(NewToken(1))}
    \cup {Register("a1")}

\* What a client can send as the second message.
SecondCommands == {Register(id) : id \in ClientIds} \cup {Heartbeat(None)}

\* ------------------------------------------------------------------ state

VARIABLES
    cpc,                \* control session: where handle_single_client stands
    net_up,             \* control connection: the peer and the path are alive
    handshake,          \* control session: the commands read before steady state
    authed,             \* handle_single_client: local `authed`
    client_id,          \* handle_single_client: local `id`, then `client_id`
    sent,               \* control connection: the commands written by the server
    active_clients,     \* ActiveClients: client_id -> ClientInfo
    registry_lock,      \* the task holding the mutex of active_clients
    token_db,           \* TokenDb: token -> email
    pending_connections,\* PendingConnections: proxy_conn_id -> user stream
    rpc,                \* public connection: where route_public_connection stands
    request,            \* public connection: the bytes peeked (kept with a 400 or 401)
    chosen_client_id,   \* route_public_connection: local `chosen_client_id`
    client_ids,         \* route_public_connection: local `client_ids`
    proxy_conn_id,      \* route_public_connection: local `proxy_conn_id`
    response,           \* public connection: the synthetic response written
    user_stream,        \* public connection: who owns the TcpStream
    uuid_counter,       \* pair ids generated so far
    wire,               \* control connection: the frame parts on the wire
    writer_lock,        \* control connection: the task holding the writer mutex
    proxy_stream,       \* proxy connection: who owns the TcpStream
    new_proxy_conn,     \* proxy connection: the proxy_conn_id it announced
    joined_user,        \* proxy connection: the user stream taken for it
    copy,               \* join_streams: the state of the two tokio::io::copy
    user_peer,          \* public connection: what a read from the user reports
    proxy_peer,         \* proxy connection: what a read from the client reports
    lock_task,          \* a task seen through its mutex operations alone
    frpc_main,          \* frpc: where main stands
    frpc_control,       \* frpc: what a read from the control channel reports
    heartbeat_task,     \* frpc: the task that sends Heartbeat and SystemInfo
    pair_task,          \* frpc: the create_proxy_connection tasks, by pair id
    proxy_written,      \* frpc: what each of them wrote on its proxy connection
    local_stream,       \* frpc: its connection to the local service
    byte_stream,        \* framing: the bytes written to a stream
    written,            \* framing: the commands written to it, in order
    results,            \* framing: what the reads on it returned, in order
    consumed,           \* framing: the number of bytes the reads consumed
    db_errors,          \* the persistence errors each session has logged
    warned,             \* the unexpected command each session logged last
    router_read         \* the bytes the router has read off each user stream

control_vars == <<cpc, net_up, handshake, authed, client_id, sent, token_db>>
router_vars == <<rpc, request, chosen_client_id, client_ids, proxy_conn_id,
                 response, user_stream, uuid_counter>>
shared_vars == <<active_clients, registry_lock, pending_connections>>
wire_vars == <<wire, writer_lock>>
proxy_vars == <<proxy_stream, new_proxy_conn, joined_user, copy, user_peer, proxy_peer>>
lock_vars == <<lock_task>>
client_vars == <<frpc_main, frpc_control, heartbeat_task, pair_task,
                 proxy_written, local_stream>>
framing_vars == <<byte_stream, written, results, consumed>>
log_vars == <<db_errors, warned>>
stream_vars == <<router_read>>
detail_vars == <<lock_vars, client_vars, framing_vars, log_vars, stream_vars>>
vars == <<control_vars, router_vars, shared_vars, wire_vars, proxy_vars,
          detail_vars>>

\* The tasks that take the registry mutex.
ControlTask(c) == <<"control", c>>
RouterTask(r) == <<"public", r>>

\* struct ClientInfo (connected_at, a wall-clock time, is left out).
ClientInfo(writer, is_authed, system_info, models) ==
    [writer |-> writer, authed |-> is_authed,
     system_info |-> system_info, models |-> models]

\* HashMap::insert and HashMap::remove
MapInsert(map, k, v) == [x \in DOMAIN map \cup {k} |-> IF x = k THEN v ELSE map[x]]
MapRemove(map, k) == [x \in DOMAIN map \ {k} |-> map[x]]

EmptyMap == [x \in {} |-> {}]

\* join_streams: the two directions, a -> b (user to proxy) and b -> a.
Copy(a_to_b, b_to_a) == [a_to_b |-> a_to_b, b_to_a |-> b_to_a]
NotCopying == Copy("none", "none")

\* The tasks as far as their mutexes go: the session of every control
\* connection, one router task, and one more that is the task spawned for
\* a proxy connection or a handler of the admin API.
OtherTask == <<"other", 1>>
LockTasks ==
    {ControlTask(c) : c \in Conns} \cup {RouterTask(1)} \cup {OtherTask}

\* A task of LockTasks: the place in the code it has passed, the mutex
\* operations from there to the next place, the mutexes it holds.
LockTask(at, ops, held) == [at |-> at, ops |-> ops, held |-> held]
NotSpawned == LockTask("spawn", <<>>, {})

\* ------------------------------------------------------------------- Init

\* main: empty registry, pairing table and token store; no connection yet.
InitServer ==
    /\ cpc = [c \in Conns |-> "idle"]
    /\ net_up = [c \in Conns |-> FALSE]
    /\ handshake = [c \in Conns |-> <<>>]
    /\ authed = [c \in Conns |-> FALSE]
    /\ client_id = [c \in Conns |-> None]
    /\ sent = [c \in Conns |-> <<>>]
    /\ active_clients = EmptyMap
    /\ registry_lock = None
    /\ token_db = EmptyMap
    /\ pending_connections = EmptyMap
    /\ rpc = [r \in Requests |-> "idle"]
    /\ request = [r \in Requests |-> None]
    /\ chosen_client_id = [r \in Requests |-> None]
    /\ client_ids = [r \in Requests |-> {}]
    /\ proxy_conn_id = [r \in Requests |-> None]
    /\ response = [r \in Requests |-> None]
    /\ user_stream = [r \in Requests |-> "none"]
    /\ uuid_counter = 0
    /\ wire = [c \in Conns |-> <<>>]
    /\ writer_lock = [c \in Conns |-> None]
    /\ proxy_stream = [p \in ProxyConns |-> "none"]
    /\ new_proxy_conn = [p \in ProxyConns |-> None]
    /\ joined_user = [p \in ProxyConns |-> None]
    /\ copy = [p \in ProxyConns |-> NotCopying]
    /\ user_peer = [r \in Requests |-> "open"]
    /\ proxy_peer = [p \in ProxyConns |-> "open"]

\* A stream nothing was written to yet.
InitFraming ==
    /\ byte_stream = <<>>
    /\ written = <<>>
    /\ results = <<>>
    /\ consumed = 0

\* frpc, logged in and registered: main enters its command loop with the
\* heartbeat task spawned.
InitClient ==
    /\ frpc_main = "command_loop"
    /\ frpc_control = "open"
    /\ heartbeat_task = "tick"
    /\ pair_task = [id \in 1..NumRequests |-> "none"]
    /\ proxy_written = [id \in 1..NumRequests |-> <<>>]
    /\ local_stream = [id \in 1..NumRequests |-> "none"]

Init ==
    /\ InitServer
    /\ lock_task = [t \in LockTasks |-> NotSpawned]
    /\ InitClient
    /\ InitFraming
    /\ db_errors = [c \in Conns |-> {}]
    /\ warned = [c \in Conns |-> None]
    /\ router_read = [r \in Requests |-> 0]

\* ------------------------------------------------------------ the mutexes

\* Mutex::lock on active_clients returns once no task holds the mutex.
RegistryLockFree_NoExclusion == TRUE
RegistryLockFree == registry_lock = None

\* write_command on the control connection c: the frame is on the wire when
\* the write succeeds; a write to a dead connection may also fail.
WriteOutcomes(c) == IF net_up[c] THEN {TRUE} ELSE {TRUE, FALSE}

\* write_command frames a command: the 4-byte length prefix, then the JSON.
Frame(command) ==
    <<[part |-> "len", of |-> command], [part |-> "json", of |-> command]>>

\* writer.lock().await: the holder of the writer mutex of a connection while
\* a frame of task t is being written.
writer_guard_Skipped(t) == None
writer_guard(t) == Some(t)

\* A write_command on c is suspended in write_all, the length prefix written.
Suspended(c) ==
    /\ Len(wire[c]) > 0
    /\ wire[c][Len(wire[c])].part = "len"

\* read_command, applied by the client to all that is on the wire: each
\* length prefix followed by its JSON gives a command; a frame cut by the
\* failure of its write gives none, nor does a length prefix alone; anything
\* else does not parse.
RECURSIVE read_command(_)
read_command(w) ==
    IF Len(w) = 0 THEN <<>>
    ELSE IF w[1].part = "len" /\ Len(w) = 1 THEN <<>>
    ELSE IF w[1].part = "len" /\ w[2].part = "json" /\ w[2].of = w[1].of
         THEN <<w[1].of>> \o read_command(SubSeq(w, 3, Len(w)))
    ELSE IF w[1].part = "len" /\ w[2].part = "reset"
         THEN read_command(SubSeq(w, 3, Len(w)))
    ELSE <<[type |-> "Failed to deserialize command"]>>

\* The writer mutex of c is held by task t, suspended in its write.
Writing(c, t) == Suspended(c) /\ writer_lock[c] = Some(t)

\* write_command(&mut *writer.lock().await, &command) by task t, as far as it
\* gets in one step: lock() returns once no task holds the writer mutex;
\* `room` tells whether the socket takes the whole frame at once; a suspended
\* write is finished by the next step of the task, which still holds the
\* guard.  The guard is dropped when write_command returns.
write_command(c, t, command, room, ok) ==
    IF Writing(c, t) THEN
        /\ wire' = [wire EXCEPT ![c] =
                       Append(@, IF ok THEN Frame(command)[2]
                                 ELSE [part |-> "reset", of |-> command])]
        /\ sent' = [sent EXCEPT ![c] = IF ok THEN Append(@, command) ELSE @]
        /\ writer_lock' = [writer_lock EXCEPT ![c] = None]
    ELSE
        /\ writer_lock[c] = None
        /\ IF ~ok THEN
              UNCHANGED <<wire, sent, writer_lock>>
           ELSE IF room THEN
              /\ wire' = [wire EXCEPT ![c] = @ \o Frame(command)]
              /\ sent' = [sent EXCEPT ![c] = Append(@, command)]
              /\ UNCHANGED writer_lock
           ELSE
              /\ wire' = [wire EXCEPT ![c] = Append(@, Frame(command)[1])]
              /\ writer_lock' = [writer_lock EXCEPT ![c] = writer_guard(t)]
              /\ UNCHANGED sent

\* The step leaves the write of task t suspended.
StillWriting(c, t, room, ok) == ok /\ ~Writing(c, t) /\ ~room

\* -------------------------------------------------------- control sessions

\* handle_control_connections: accept a control connection and spawn its
\* session (connections are numbered in the order they are accepted).
handle_control_connections(c) ==
    /\ cpc[c] = "idle"
    /\ \A d \in Conns : d < c => cpc[d] # "idle"
    /\ cpc' = [cpc EXCEPT ![c] = "await_login"]
    /\ net_up' = [net_up EXCEPT ![c] = TRUE]
    /\ UNCHANGED <<handshake, authed, client_id, sent, token_db>>
    /\ UNCHANGED <<router_vars, shared_vars>>
    /\ UNCHANGED <<wire_vars, proxy_vars>>
    /\ UNCHANGED detail_vars

\* The client goes away or the path breaks: reads on the server side will
\* fail from now on.
peer_closes(c) ==
    /\ cpc[c] \notin {"idle", "closed"}
    /\ net_up[c]
    /\ net_up' = [net_up EXCEPT ![c] = FALSE]
    /\ UNCHANGED <<cpc, handshake, authed, client_id, sent, token_db>>
    /\ UNCHANGED <<router_vars, shared_vars>>
    /\ UNCHANGED <<wire_vars, proxy_vars>>
    /\ UNCHANGED detail_vars

\* A step of handle_single_client: where it stands next, what it has read
\* and its locals; a return drops the locals and the socket.
Locals(c, next, hs, is_authed, id) ==
    /\ cpc' = [cpc EXCEPT ![c] = next]
    /\ net_up' = [net_up EXCEPT ![c] = IF next = "closed" THEN FALSE ELSE @]
    /\ handshake' = [handshake EXCEPT ![c] = hs]
    /\ authed' = [authed EXCEPT ![c] = IF next = "closed" THEN FALSE ELSE is_authed]
    /\ client_id' = [client_id EXCEPT ![c] = IF next = "closed" THEN None ELSE id]

\* user.pass == pass
PasswordMatches_Always(user, pass) == TRUE
PasswordMatches(user, pass) == user.pass = pass

\* validate_token_in_db: Ok(row.is_some()), or Err when the query fails.
validate_token_in_db(token, db_ok) ==
    IF db_ok THEN [ok |-> TRUE, is_valid |-> token \in ApiKeysTable]
    ELSE [ok |-> FALSE, is_valid |-> FALSE]

\* handle_single_client, the match on the first command: the value of
\* `authed`, the LoginResult written (if any), the token stored, and whether
\* the function returns Err at once.
login_outcome(c, cmd, db_ok) ==
    IF cmd.type = "Login" THEN
        IF cmd.email \in DOMAIN user_db THEN
            IF PasswordMatches(user_db[cmd.email], cmd.pass) THEN
                [authed |-> TRUE, err |-> FALSE, store |-> Some(NewToken(c)),
                 reply |-> Some(LoginResult(TRUE, None, Some(NewToken(c))))]
            ELSE
                [authed |-> FALSE, err |-> FALSE, store |-> None,
                 reply |-> Some(LoginResult(FALSE, Some("Invalid password"), None))]
        ELSE
            [authed |-> FALSE, err |-> FALSE, store |-> None,
             reply |-> Some(LoginResult(FALSE, Some("User not found"), None))]
    ELSE IF cmd.type = "LoginByToken" THEN
        LET v == validate_token_in_db(cmd.token, db_ok) IN
        IF v.ok THEN
            IF v.is_valid THEN
                [authed |-> TRUE, err |-> FALSE, store |-> None,
                 reply |-> Some(LoginResult(TRUE, None, None))]
            ELSE
                [authed |-> FALSE, err |-> FALSE, store |-> None,
                 reply |-> Some(LoginResult(FALSE, Some("Invalid token"), None))]
        ELSE
            [authed |-> FALSE, err |-> FALSE, store |-> None,
             reply |-> Some(LoginResult(FALSE, Some("Database error"), None))]
    ELSE
        [authed |-> FALSE, err |-> TRUE, store |-> None, reply |-> None]

\* `if !authed { return Ok(()); }`: the session goes on only when authed.
after_login_Unchecked(is_authed, err) ==
    IF err THEN "closed" ELSE "await_register"
after_login(is_authed, err) ==
    IF err \/ ~is_authed THEN "closed" ELSE "await_register"

\* handle_single_client: read the first command and answer it.
handle_single_client_login(c, cmd, db_ok, room) ==
    /\ cpc[c] = "await_login"
    /\ net_up[c]
    /\ LET out == login_outcome(c, cmd, db_ok)
           next == after_login(out.authed, out.err)
       IN /\ token_db' = IF IsSome(out.store)
                         THEN MapInsert(token_db, Unwrap(out.store), cmd.email)
                         ELSE token_db
          /\ IF IsSome(out.reply) THEN
                /\ write_command(c, ControlTask(c), Unwrap(out.reply), room, TRUE)
                /\ Locals(c, IF room THEN next ELSE "login_result",
                          <<cmd>>, out.authed, None)
             ELSE
                /\ Locals(c, next, <<cmd>>, out.authed, None)
                /\ UNCHANGED <<sent, wire_vars>>
    /\ UNCHANGED <<router_vars, shared_vars, proxy_vars>>
    /\ UNCHANGED detail_vars

\* handle_single_client: the LoginResult whose write was suspended is
\* finished (its outcome is ignored), then `if !authed { return Ok(()) }`.
handle_single_client_login_result(c) ==
    /\ cpc[c] = "login_result"
    /\ \E ok \in WriteOutcomes(c) :
          write_command(c, ControlTask(c), wire[c][Len(wire[c])].of, TRUE, ok)
    /\ Locals(c, after_login(authed[c], FALSE), handshake[c], authed[c], None)
    /\ UNCHANGED token_db
    /\ UNCHANGED <<router_vars, shared_vars, proxy_vars>>
    /\ UNCHANGED detail_vars

\* handle_single_client: `read_command(&mut reader).await?` fails during the
\* handshake; the session ends.
handle_single_client_read_error(c) ==
    /\ cpc[c] \in {"await_login", "await_register"}
    /\ ~net_up[c]
    /\ Locals(c, "closed", handshake[c], FALSE, None)
    /\ UNCHANGED <<sent, token_db>>
    /\ UNCHANGED <<router_vars, shared_vars>>
    /\ UNCHANGED <<wire_vars, proxy_vars>>
    /\ UNCHANGED detail_vars

\* clients.contains_key(&id)
contains_key_Never(clients, id) == FALSE
contains_key(clients, id) == id \in DOMAIN clients

\* handle_single_client: read the second command; on Register take the
\* registry mutex and test the id, otherwise return Err.
handle_single_client_register(c, cmd) ==
    /\ cpc[c] = "await_register"
    /\ net_up[c]
    /\ IF cmd.type = "Register" THEN
          /\ RegistryLockFree
          /\ registry_lock' = Some(ControlTask(c))
          /\ Locals(c, IF contains_key(active_clients, cmd.client_id)
                       THEN "register_reject" ELSE "register_insert",
                    Append(handshake[c], cmd), authed[c], Some(cmd.client_id))
       ELSE
          /\ Locals(c, "closed", Append(handshake[c], cmd), FALSE, None)
          /\ UNCHANGED registry_lock
    /\ UNCHANGED <<sent, token_db>>
    /\ UNCHANGED <<router_vars, active_clients, pending_connections>>
    /\ UNCHANGED <<wire_vars, proxy_vars>>
    /\ UNCHANGED detail_vars

\* `clients.insert(id.clone(), ClientInfo { .. })`, the statement before the
\* write of the RegisterResult.
clients_insert_Deferred(clients, id, info) == clients
clients_insert(clients, id, info) == MapInsert(clients, id, info)

\* handle_single_client: clients.insert(id, ClientInfo { writer, authed,
\* system_info: None, models: None }), the registry mutex still held.
handle_single_client_insert(c) ==
    /\ cpc[c] = "register_insert"
    /\ active_clients' = clients_insert(active_clients, Unwrap(client_id[c]),
                                        ClientInfo(c, authed[c], None, None))
    /\ cpc' = [cpc EXCEPT ![c] = "register_ack"]
    /\ UNCHANGED <<net_up, handshake, authed, client_id, sent, token_db>>
    /\ UNCHANGED <<router_vars, registry_lock, pending_connections>>
    /\ UNCHANGED <<wire_vars, proxy_vars>>
    /\ UNCHANGED detail_vars

\* handle_single_client: write the RegisterResult (its outcome is ignored),
\* then leave the block, which releases the registry mutex: into client_loop
\* after an insert, out with Err after a rejection.
handle_single_client_register_result(c, room) ==
    /\ cpc[c] \in {"register_ack", "register_reject"}
    /\ LET accepted == cpc[c] = "register_ack"
           reply == IF accepted THEN RegisterResult(TRUE, None)
                    ELSE RegisterResult(FALSE, Some("Client ID already in use"))
       IN \E ok \in WriteOutcomes(c) :
             /\ write_command(c, ControlTask(c), reply, room, ok)
             /\ IF StillWriting(c, ControlTask(c), room, ok) THEN
                   UNCHANGED <<cpc, net_up, handshake, authed, client_id,
                               registry_lock>>
                ELSE
                   /\ Locals(c, IF accepted THEN "steady" ELSE "closed",
                             handshake[c], authed[c], client_id[c])
                   /\ registry_lock' =
                         IF registry_lock = Some(ControlTask(c)) THEN None
                         ELSE registry_lock
    /\ UNCHANGED token_db
    /\ UNCHANGED <<router_vars, active_clients, pending_connections, proxy_vars>>
    /\ UNCHANGED detail_vars

\* client_loop, Ok(Command::Heartbeat { models }): the stored catalog becomes
\* `models`; system_info is created with zeros when there was none.
client_loop_heartbeat(c, models) ==
    /\ cpc[c] = "steady"
    /\ net_up[c]
    /\ RegistryLockFree
    /\ LET id == Unwrap(client_id[c]) IN
       active_clients' =
           IF id \in DOMAIN active_clients
           THEN [active_clients EXCEPT ![id] =
                    [@ EXCEPT !.models = models,
                              !.system_info = IF IsSome(@) THEN @ ELSE Some(0)]]
           ELSE active_clients
    /\ UNCHANGED control_vars
    /\ UNCHANGED <<router_vars, registry_lock, pending_connections>>
    /\ UNCHANGED <<wire_vars, proxy_vars>>
    /\ UNCHANGED detail_vars

\* `if let Err(e) = <persistence call>.await { error!(..) }`: the error is
\* logged and the arm goes on to `next`.
db_error_Returns(db_ok, next) == IF db_ok THEN next ELSE "closed"
db_error(db_ok, next) == next

\* error!("Failed to ..: {}", e)
Logged(c, db_ok, message) ==
    [db_errors EXCEPT ![c] = IF db_ok THEN @ ELSE @ \cup {message}]

\* client_loop, Ok(Command::SystemInfo { .. }): upsert_client_info returns
\* Ok or Err (db_ok); then the stored metrics become the received ones.
client_loop_system_info(c, metrics, db_ok) ==
    /\ cpc[c] = "steady"
    /\ net_up[c]
    /\ RegistryLockFree
    /\ db_errors' = Logged(c, db_ok, "Failed to store client info in database")
    /\ cpc' = [cpc EXCEPT ![c] = db_error(db_ok, "steady")]
    /\ LET id == Unwrap(client_id[c]) IN
       active_clients' =
           IF cpc'[c] = "steady" /\ id \in DOMAIN active_clients
           THEN [active_clients EXCEPT ![id].system_info = Some(metrics)]
           ELSE active_clients
    /\ UNCHANGED <<net_up, handshake, authed, client_id, sent, token_db>>
    /\ UNCHANGED <<router_vars, registry_lock, pending_connections>>
    /\ UNCHANGED <<wire_vars, proxy_vars>>
    /\ UNCHANGED <<lock_vars, client_vars, framing_vars, warned, stream_vars>>

\* client_loop, Ok(cmd) of any other variant: warn!, and the loop goes on.
after_unexpected_Breaks(cmd) == "closed"
after_unexpected(cmd) == "steady"

client_loop_unexpected(c, cmd) ==
    /\ cpc[c] = "steady"
    /\ net_up[c]
    /\ cmd.type \notin {"Heartbeat", "SystemInfo"}
    /\ warned' = [warned EXCEPT ![c] = Some(cmd.type)]
    /\ cpc' = [cpc EXCEPT ![c] = after_unexpected(cmd)]
    /\ UNCHANGED <<net_up, handshake, authed, client_id, sent, token_db>>
    /\ UNCHANGED <<router_vars, shared_vars>>
    /\ UNCHANGED <<wire_vars, proxy_vars>>
    /\ UNCHANGED <<lock_vars, client_vars, framing_vars, db_errors, stream_vars>>

\* client_loop, Err(_): the read failed; the UPDATE marking the client
\* offline is awaited first.
client_loop_read_error(c) ==
    /\ cpc[c] = "steady"
    /\ ~net_up[c]
    /\ cpc' = [cpc EXCEPT ![c] = "mark_offline"]
    /\ UNCHANGED <<net_up, handshake, authed, client_id, sent, token_db>>
    /\ UNCHANGED <<router_vars, shared_vars>>
    /\ UNCHANGED <<wire_vars, proxy_vars>>
    /\ UNCHANGED detail_vars

\* client_loop, Err(_): the UPDATE returns Ok or Err (db_ok); then
\* active_clients.lock().await.remove(&client_id); break.
client_loop_remove(c, db_ok) ==
    /\ cpc[c] = "mark_offline"
    /\ RegistryLockFree
    /\ db_errors' =
          Logged(c, db_ok, "Failed to update client status to offline in database")
    /\ active_clients' =
          IF db_error(db_ok, "remove") = "remove"
          THEN MapRemove(active_clients, Unwrap(client_id[c]))
          ELSE active_clients
    /\ Locals(c, "closed", handshake[c], FALSE, None)
    /\ UNCHANGED <<sent, token_db>>
    /\ UNCHANGED <<router_vars, registry_lock, pending_connections>>
    /\ UNCHANGED <<wire_vars, proxy_vars>>
    /\ UNCHANGED <<lock_vars, client_vars, framing_vars, warned, stream_vars>>

\* disconnect_client (DELETE /api/clients/:client_id): remove the record.
disconnect_client(id) ==
    /\ RegistryLockFree
    /\ id \in DOMAIN active_clients
    /\ active_clients' = MapRemove(active_clients, id)
    /\ UNCHANGED <<control_vars, router_vars, registry_lock, pending_connections>>
    /\ UNCHANGED <<wire_vars, proxy_vars>>
    /\ UNCHANGED detail_vars

\* ---------------------------------------------------------- public requests

\* Args::api_key, default "abc123".
api_key == <<"a", "b", "c", "1", "2", "3">>

Authorization == <<"A", "u", "t", "h", "o", "r", "i", "z", "a", "t", "i", "o", "n">>
authorization == <<"a", "u", "t", "h", "o", "r", "i", "z", "a", "t", "i", "o", "n">>
Host == <<"H", "o", "s", "t">>
Bearer == <<"B", "e", "a", "r", "e", "r", " ">>
bearer == <<"b", "e", "a", "r", "e", "r", " ">>
wrong == <<"w", "r", "o", "n", "g">>

Header(name, value) == [name |-> name, value |-> value]

\* The first packet of a public connection, as httparse and serde_json see
\* it: `head` is what Request::parse returns for the bytes, `body` what
\* follows the head in the peeked window: `utf8` for str::from_utf8, `model`
\* for serde_json::from_str::<ChatCompletionRequest>.
HttpRequest(head, headers, method, path, body) ==
    [head |-> head, headers |-> headers, method |-> method, path |-> path,
     body |-> body]
Body(utf8, model) == [utf8 |-> utf8, model |-> model]
NoBody == Body(TRUE, None)

PublicRequests ==
    {   \* the head is cut short, although the Authorization header is there
        HttpRequest("partial", <<Header(Authorization, Bearer \o api_key)>>,
                    "POST", "/v1/chat/completions", NoBody),
        \* not HTTP at all
        HttpRequest("error", <<>>, "", "", NoBody),
        \* no Authorization header
        HttpRequest("complete", <<Header(Host, <<"x">>)>>,
                    "GET", "/v1/models", NoBody),
        \* a key that is not the configured one
        HttpRequest("complete", <<Header(Authorization, Bearer \o wrong)>>,
                    "POST", "/v1/chat/completions", Body(TRUE, Some("m1"))),
        \* authenticated, not a chat completion
        HttpRequest("complete", <<Header(Host, <<"x">>),
                                  Header(Authorization, Bearer \o api_key)>>,
                    "GET", "/v1/models", NoBody),
        \* authenticated chat completions naming a model
        HttpRequest("complete", <<Header(authorization, bearer \o api_key)>>,
                    "POST", "/v1/chat/completions", Body(TRUE, Some("m1"))),
        HttpRequest("complete", <<Header(Authorization, api_key)>>,
                    "POST", "/v1/chat/completions", Body(TRUE, Some("m2"))),
        \* authenticated chat completion whose body does not parse
        HttpRequest("complete", <<Header(Authorization, Bearer \o api_key)>>,
                    "POST", "/v1/chat/completions", Body(TRUE, None)),
        HttpRequest("complete", <<Header(Authorization, Bearer \o api_key)>>,
                    "POST", "/v1/chat/completions", Body(FALSE, None))
    }

\* A byte that occurs in no UTF-8 text (0xFF); httparse lets the bytes 0x80 to
\* 0xFF through in a header value.
InvalidByte == "0xFF"

\* Requests with a complete head that differ in their credentials only: the
\* header's name and the scheme in several cases, the key bare or after
\* "Bearer ", keys that differ from the configured one in a letter's case, by
\* a missing or an extra character, a scheme given twice or without its
\* space, an empty value, two Authorization headers, a value that is no
\* UTF-8 text, and no Authorization header at all.
AUTHORIZATION == <<"A", "U", "T", "H", "O", "R", "I", "Z", "A", "T", "I", "O", "N">>
BEARER == <<"B", "E", "A", "R", "E", "R", " ">>
AuthHeaders ==
    {   <<Header(Authorization, api_key)>>,
        <<Header(authorization, bearer \o api_key)>>,
        <<Header(AUTHORIZATION, BEARER \o api_key)>>,
        <<Header(Host, <<"x">>), Header(Authorization, Bearer \o api_key)>>,
        <<Header(Authorization, Bearer \o Bearer \o api_key)>>,
        <<Header(Authorization, Bearer \o <<"A", "B", "C", "1", "2", "3">>)>>,
        <<Header(Authorization, <<"a", "b", "c", "1", "2">>)>>,
        <<Header(Authorization, Bearer \o api_key \o <<"4">>)>>,
        <<Header(Authorization, <<"B", "e", "a", "r", "e", "r">> \o api_key)>>,
        <<Header(Authorization, Bearer)>>,
        <<Header(Authorization, <<>>)>>,
        <<Header(Authorization, wrong), Header(Authorization, api_key)>>,
        <<Header(Authorization, api_key), Header(Authorization, wrong)>>,
        <<Header(Authorization, <<InvalidByte>>)>>,
        <<Header(Authorization, Bearer \o api_key \o <<InvalidByte>>)>>,
        <<Header(Host, api_key)>>,
        <<>>
    }
AuthRequests ==
    {HttpRequest("complete", headers, "GET", "/v1/models", NoBody) :
        headers \in AuthHeaders}

\* `let Ok(httparse::Status::Complete(parsed_len)) = req.parse(initial_data)`
head_complete_Lenient(req) == req.head # "error"
head_complete(req) == req.head = "complete"

\* std::str::from_utf8(bytes).ok()
from_utf8(bytes) ==
    IF \E i \in 1..Len(bytes) : bytes[i] = InvalidByte
    THEN None
    ELSE Some(bytes)

\* req.headers.iter().find(|h| h.name.to_lowercase() == "authorization")
\*     .and_then(|h| std::str::from_utf8(h.value).ok())
auth_header(req) ==
    LET hits == {i \in 1..Len(req.headers) :
                    to_lowercase(req.headers[i].name) = authorization}
    IN IF hits = {} THEN None
       ELSE from_utf8(req.headers[CHOOSE i \in hits : \A j \in hits : i <= j].value)

\* `if auth_value.to_lowercase().starts_with("bearer ") { &auth_value[7..] }
\*  else { auth_value }`
provided_key(auth_value) ==
    IF starts_with(to_lowercase(auth_value), bearer)
    THEN slice_from(auth_value, 7)
    ELSE auth_value

\* `provided_key != api_key` is the rejection
key_accepted_Any(key) == TRUE
key_accepted(key) == key = api_key

\* send_http_error_response: the status line and the envelope's message.
status_text(status_code) ==
    CASE status_code = 400 -> "Bad Request"
      [] status_code = 401 -> "Unauthorized"
      [] status_code = 403 -> "Forbidden"
      [] status_code = 500 -> "Internal Server Error"
      [] OTHER -> "Error"

send_http_error_response(status_code, error_message) ==
    [status |-> status_code, reason |-> status_text(status_code),
     success |-> FALSE, message |-> error_message]

\* route_public_connection up to its first use of shared state: the synthetic
\* answer of a request that is turned away, None for one that goes on.
early_response(req) ==
    IF ~head_complete(req)
    THEN Some(send_http_error_response(400, "Invalid HTTP request format"))
    ELSE IF ~IsSome(auth_header(req))
    THEN Some(send_http_error_response(401, "Missing API key in Authorization header"))
    ELSE IF ~key_accepted(provided_key(Unwrap(auth_header(req))))
    THEN Some(send_http_error_response(401, "Invalid API key"))
    ELSE None

\* A return of route_public_connection drops its locals.
ReturnLocals(r) ==
    /\ request' = [request EXCEPT ![r] = None]
    /\ chosen_client_id' = [chosen_client_id EXCEPT ![r] = None]
    /\ client_ids' = [client_ids EXCEPT ![r] = {}]
    /\ proxy_conn_id' = [proxy_conn_id EXCEPT ![r] = None]

\* `let mut buffer = [0; 4096]`
BufferLen == 4096

\* user_stream.peek(&mut buffer): the bytes stay in the stream; the read
\* position `pos` is where it was.
peek_Reads(pos, n) == pos + n
peek(pos, n) == pos

\* handle_public_connections and the head of route_public_connection: accept,
\* peek, parse, check the key.  `peek_ok` is the outcome of user_stream.peek.
handle_public_connections(r, req, peek_ok) ==
    /\ rpc[r] = "idle"
    /\ \A q \in Requests : q < r => rpc[q] # "idle"
    /\ IF ~peek_ok THEN
          /\ rpc' = [rpc EXCEPT ![r] = "returned_err"]
          /\ user_stream' = [user_stream EXCEPT ![r] = "closed"]
          /\ UNCHANGED <<response, request>>
       ELSE IF IsSome(early_response(req)) THEN
          /\ rpc' = [rpc EXCEPT ![r] = "returned_ok"]
          /\ response' = [response EXCEPT ![r] = early_response(req)]
          /\ user_stream' = [user_stream EXCEPT ![r] = "closed"]
          /\ request' = [request EXCEPT ![r] = Some(req)]
       ELSE
          /\ rpc' = [rpc EXCEPT ![r] = "model_lookup"]
          /\ request' = [request EXCEPT ![r] = Some(req)]
          /\ user_stream' = [user_stream EXCEPT ![r] = "router"]
          /\ UNCHANGED response
    /\ UNCHANGED <<chosen_client_id, client_ids, proxy_conn_id, uuid_counter>>
    /\ UNCHANGED <<control_vars, shared_vars>>
    /\ UNCHANGED <<wire_vars, proxy_vars>>
    /\ router_read' = [router_read EXCEPT ![r] =
                          IF peek_ok THEN peek(@, BufferLen) ELSE @]
    /\ UNCHANGED <<lock_vars, client_vars, framing_vars, log_vars>>

\* find_client_by_model: the first client, in the map's iteration order, whose
\* catalog holds the model; HashMap's order is arbitrary, so any of them.
find_client_by_model_AnyClient(model_name, clients) ==
    IF DOMAIN clients = {} THEN {None} ELSE {Some(id) : id \in DOMAIN clients}
find_client_by_model(model_name, clients) ==
    LET hits == {id \in DOMAIN clients :
                    /\ IsSome(clients[id].models)
                    /\ model_name \in Unwrap(clients[id].models)}
    IN IF hits = {} THEN {None} ELSE {Some(id) : id \in hits}

\* `req.method == Some("POST") && req.path == Some("/v1/chat/completions")`
\* and the body parses as a ChatCompletionRequest.
requested_model(req) ==
    IF /\ req.method = "POST"
       /\ req.path = "/v1/chat/completions"
       /\ req.body.utf8
    THEN req.body.model
    ELSE None

\* route_public_connection, the block that computes the first
\* `chosen_client_id`: under the registry mutex, released at the block's end.
route_public_connection_lookup(r) ==
    /\ rpc[r] = "model_lookup"
    /\ RegistryLockFree
    /\ LET model == requested_model(Unwrap(request[r])) IN
       \E found \in (IF IsSome(model)
                     THEN find_client_by_model(Unwrap(model), active_clients)
                     ELSE {None}) :
           chosen_client_id' = [chosen_client_id EXCEPT ![r] = found]
    /\ rpc' = [rpc EXCEPT ![r] = "select"]
    /\ UNCHANGED <<request, client_ids, proxy_conn_id, response, user_stream,
                   uuid_counter>>
    /\ UNCHANGED <<control_vars, shared_vars>>
    /\ UNCHANGED <<wire_vars, proxy_vars>>
    /\ UNCHANGED detail_vars

\* client_ids.is_empty()
is_empty_Never(ids) == FALSE
is_empty(ids) == ids = {}

\* client_ids.choose(&mut rand::thread_rng()): any element, None of no element.
choose_FirstOnly(ids) ==
    IF ids = {} THEN {None}
    ELSE {Some(CHOOSE id \in ids : \A other \in ids : id = other \/ id = "a1")}
choose(ids) == IF ids = {} THEN {None} ELSE {Some(id) : id \in ids}

\* pending_connections.lock().await.insert(proxy_conn_id, user_stream),
\* before the command is written.
pending_insert_Late(pending, id, stream) == pending
pending_insert(pending, id, stream) == MapInsert(pending, id, stream)

\* route_public_connection from the second `active_clients.lock().await` to
\* the insertion into the pairing table: the mutex is taken and stays held.
route_public_connection_select(r) ==
    /\ rpc[r] = "select"
    /\ RegistryLockFree
    /\ LET keys == DOMAIN active_clients
           random == ~IsSome(chosen_client_id[r])
       IN IF random /\ is_empty(keys) THEN
             \* 503 is written next, the mutex held
             /\ rpc' = [rpc EXCEPT ![r] = "send_503"]
             /\ registry_lock' = Some(RouterTask(r))
             /\ client_ids' = [client_ids EXCEPT ![r] = keys]
             /\ UNCHANGED <<request, chosen_client_id, proxy_conn_id, user_stream,
                            uuid_counter, pending_connections>>
          ELSE
             \E picked \in (IF random THEN choose(keys) ELSE {chosen_client_id[r]}) :
                IF \/ ~IsSome(picked)
                   \/ Unwrap(picked) \notin DOMAIN active_clients
                   \/ ~active_clients[Unwrap(picked)].authed
                THEN \* Err: "Failed to choose a client", "Chosen client
                     \* disappeared", "Chosen client not authenticated"
                     /\ rpc' = [rpc EXCEPT ![r] = "returned_err"]
                     /\ user_stream' = [user_stream EXCEPT ![r] = "closed"]
                     /\ ReturnLocals(r)
                     /\ UNCHANGED <<uuid_counter, pending_connections, registry_lock>>
                ELSE /\ chosen_client_id' = [chosen_client_id EXCEPT ![r] = picked]
                     /\ client_ids' = [client_ids EXCEPT ![r] =
                                          IF random THEN keys ELSE @]
                     /\ uuid_counter' = uuid_counter + 1
                     /\ proxy_conn_id' =
                           [proxy_conn_id EXCEPT ![r] = Some(uuid_counter')]
                     /\ pending_connections' =
                           pending_insert(pending_connections, uuid_counter', r)
                     /\ user_stream' = [user_stream EXCEPT ![r] = "pending"]
                     /\ rpc' = [rpc EXCEPT ![r] = "request_proxy_conn"]
                     /\ registry_lock' = Some(RouterTask(r))
                     /\ UNCHANGED request
    /\ UNCHANGED response
    /\ UNCHANGED <<control_vars, active_clients>>
    /\ UNCHANGED <<wire_vars, proxy_vars>>
    /\ UNCHANGED detail_vars

\* route_public_connection: the 503 of an empty registry, then return Ok.
route_public_connection_503(r) ==
    /\ rpc[r] = "send_503"
    /\ response' = [response EXCEPT ![r] =
                       Some(send_http_error_response(503, "No active clients available"))]
    /\ user_stream' = [user_stream EXCEPT ![r] = "closed"]
    /\ rpc' = [rpc EXCEPT ![r] = "returned_ok"]
    /\ ReturnLocals(r)
    /\ registry_lock' = IF registry_lock = Some(RouterTask(r)) THEN None
                        ELSE registry_lock
    /\ UNCHANGED uuid_counter
    /\ UNCHANGED <<control_vars, active_clients, pending_connections>>
    /\ UNCHANGED <<wire_vars, proxy_vars>>
    /\ UNCHANGED detail_vars

\* route_public_connection: write RequestNewProxyConn under the record's
\* writer mutex; on failure remove the client and the pair, return Err.
clients_remove_Keeps(clients, id) == clients
clients_remove(clients, id) == MapRemove(clients, id)

\* `return Err(e)` after the write failed: the task of this connection ends.
after_write_error_Retries == "select"
after_write_error == "returned_err"

route_public_connection_write(r, room) ==
    /\ rpc[r] = "request_proxy_conn"
    /\ LET id == Unwrap(chosen_client_id[r])
           pair == Unwrap(proxy_conn_id[r])
           writer == active_clients[id].writer
       IN \E ok \in WriteOutcomes(writer) :
             /\ write_command(writer, RouterTask(r), RequestNewProxyConn(pair),
                              room, ok)
             /\ IF StillWriting(writer, RouterTask(r), room, ok) THEN
                   UNCHANGED <<router_vars, shared_vars>>
                ELSE
                   /\ IF ok THEN
                         /\ rpc' = [rpc EXCEPT ![r] = "returned_ok"]
                         /\ UNCHANGED <<active_clients, pending_connections,
                                        user_stream>>
                      ELSE
                         /\ rpc' = [rpc EXCEPT ![r] = after_write_error]
                         /\ active_clients' = clients_remove(active_clients, id)
                         /\ pending_connections' =
                               MapRemove(pending_connections, pair)
                         /\ user_stream' =
                               [user_stream EXCEPT ![r] =
                                   IF pair \in DOMAIN pending_connections
                                   THEN "closed" ELSE @]
                   /\ ReturnLocals(r)
                   /\ registry_lock' =
                         IF registry_lock = Some(RouterTask(r)) THEN None
                         ELSE registry_lock
                   /\ UNCHANGED <<response, uuid_counter>>
    /\ UNCHANGED <<cpc, net_up, handshake, authed, client_id, token_db>>
    /\ UNCHANGED proxy_vars
    /\ UNCHANGED detail_vars

\* pending.remove(&proxy_conn_id): the entry leaves the table with its stream.
pending_remove_Keeps(pending, id) == pending
pending_remove_Clears(pending, id) == EmptyMap
pending_remove(pending, id) == MapRemove(pending, id)

\* `if let Some(user_stream) = pending.remove(&proxy_conn_id)`
pending_holds_Never(pending, id) == FALSE
pending_holds(pending, id) == id \in DOMAIN pending

\* handle_proxy_connections: accept proxy connection p and read its first
\* command (None: the read fails); on NewProxyConn{id} the user stream, if
\* the table holds it, is taken out and join_streams is spawned.
handle_proxy_connections(p, cmd) ==
    /\ proxy_stream[p] = "none"
    /\ \A q \in ProxyConns : q < p => proxy_stream[q] # "none"
    /\ IF IsSome(cmd) /\ Unwrap(cmd).type = "NewProxyConn" THEN
          LET id == Unwrap(cmd).proxy_conn_id IN
          /\ new_proxy_conn' = [new_proxy_conn EXCEPT ![p] = Some(id)]
          /\ IF pending_holds(pending_connections, id) THEN
                /\ pending_connections' = pending_remove(pending_connections, id)
                /\ joined_user' =
                      [joined_user EXCEPT ![p] = Some(pending_connections[id])]
                /\ user_stream' =
                      [user_stream EXCEPT ![pending_connections[id]] = "spliced"]
                /\ proxy_stream' = [proxy_stream EXCEPT ![p] = "spliced"]
                /\ copy' = [copy EXCEPT ![p] = Copy("copying", "copying")]
             ELSE
                \* "No pending user connection found": remove returned None,
                \* the stream is dropped
                /\ pending_connections' = pending_remove(pending_connections, id)
                /\ proxy_stream' = [proxy_stream EXCEPT ![p] = "closed"]
                /\ UNCHANGED <<joined_user, user_stream, copy>>
       ELSE
          \* "Failed to read NewProxyConn command": the stream is dropped
          /\ proxy_stream' = [proxy_stream EXCEPT ![p] = "closed"]
          /\ UNCHANGED <<pending_connections, new_proxy_conn, joined_user,
                         user_stream, copy>>
    /\ UNCHANGED <<user_peer, proxy_peer>>
    /\ UNCHANGED <<rpc, request, chosen_client_id, client_ids, proxy_conn_id,
                   response, uuid_counter>>
    /\ UNCHANGED <<control_vars, active_clients, registry_lock, wire_vars>>
    /\ UNCHANGED detail_vars

\* The user hangs up or half-closes (eof), or its connection is reset
\* (error): what the next read from the user stream reports.
user_closes(r, how) ==
    /\ user_stream[r] \in {"pending", "spliced"}
    /\ user_peer[r] = "open"
    /\ user_peer' = [user_peer EXCEPT ![r] = how]
    /\ UNCHANGED <<proxy_stream, new_proxy_conn, joined_user, copy, proxy_peer>>
    /\ UNCHANGED <<control_vars, router_vars, shared_vars, wire_vars>>
    /\ UNCHANGED detail_vars

\* The same for the client's end of a proxy connection.
proxy_closes(p, how) ==
    /\ proxy_stream[p] = "spliced"
    /\ proxy_peer[p] = "open"
    /\ proxy_peer' = [proxy_peer EXCEPT ![p] = how]
    /\ UNCHANGED <<proxy_stream, new_proxy_conn, joined_user, copy, user_peer>>
    /\ UNCHANGED <<control_vars, router_vars, shared_vars, wire_vars>>
    /\ UNCHANGED detail_vars

\* tokio::select! over the two copies: it completes with the first branch
\* that completes, and drops the other.
select_Both(a_done, b_done) == a_done /\ b_done
select(a_done, b_done) == a_done \/ b_done

\* tokio::io::copy ends when its reader reports EOF (Ok) or an error (Err).
copy_result(peer) == IF peer = "eof" THEN "ok" ELSE "err"

\* join_streams: one of the copies completes, the select! returns and the
\* function with it; both streams, owned by the function, are dropped.
join_streams(p) ==
    /\ proxy_stream[p] = "spliced"
    /\ LET r == Unwrap(joined_user[p])
           a_done == user_peer[r] # "open"
           b_done == proxy_peer[p] # "open"
       IN /\ select(a_done, b_done)
          /\ \/ /\ a_done
                /\ copy' = [copy EXCEPT ![p] =
                                Copy(copy_result(user_peer[r]), "dropped")]
             \/ /\ b_done
                /\ copy' = [copy EXCEPT ![p] =
                                Copy("dropped", copy_result(proxy_peer[p]))]
          /\ user_stream' = [user_stream EXCEPT ![r] = "closed"]
          /\ proxy_stream' = [proxy_stream EXCEPT ![p] = "closed"]
    /\ UNCHANGED <<new_proxy_conn, joined_user, user_peer, proxy_peer>>
    /\ UNCHANGED <<rpc, request, chosen_client_id, client_ids, proxy_conn_id,
                   response, uuid_counter>>
    /\ UNCHANGED <<control_vars, shared_vars, wire_vars>>
    /\ UNCHANGED detail_vars

\* ------------------------------------------------------------------- Spec

\* What the clients can send on a proxy connection: NewProxyConn{id} for the
\* ids they were sent in a RequestNewProxyConn; and those of them that the
\* pairing table still holds.
DialBacks ==
    {NewProxyConn(id) : id \in {n \in 1..uuid_counter :
        \E c \in Conns : \E i \in 1..Len(sent[c]) :
            sent[c][i] = RequestNewProxyConn(n)}}
PendingDialBacks ==
    {cmd \in DialBacks : cmd.proxy_conn_id \in DOMAIN pending_connections}

\* Authenticated chat completions that name the model m1.
RoutedRequests ==
    {req \in PublicRequests :
        /\ early_response(req) = None
        /\ req.body.utf8
        /\ req.body.model = Some("m1")}

\* The inputs of the routing specification: chat completions that pass the
\* checks of the head, clients that log in with the right password and
\* advertise any set of models, sockets that take a frame at once, hang-ups
\* and the admin's delete.
RoutingFirstCommands == {Login("test@example.com", "123456")}
RoutingSecondCommands == {Register(id) : id \in ClientIds}

Next ==
    \/ \E c \in Conns : handle_control_connections(c)
    \/ \E c \in Conns : peer_closes(c)
    \/ \E c \in Conns : \E cmd \in RoutingFirstCommands :
          handle_single_client_login(c, cmd, TRUE, TRUE)
    \/ \E c \in Conns : handle_single_client_read_error(c)
    \/ \E c \in Conns : \E cmd \in RoutingSecondCommands :
          handle_single_client_register(c, cmd)
    \/ \E c \in Conns : handle_single_client_insert(c)
    \/ \E c \in Conns : handle_single_client_register_result(c, TRUE)
    \/ \E c \in Conns : \E models \in HeartbeatModels :
          client_loop_heartbeat(c, models)
    \/ \E c \in Conns : client_loop_read_error(c)
    \/ \E c \in Conns : client_loop_remove(c, TRUE)
    \/ \E id \in ClientIds : disconnect_client(id)
    \/ \E r \in Requests : \E req \in RoutedRequests :
          handle_public_connections(r, req, TRUE)
    \/ \E r \in Requests : route_public_connection_lookup(r)
    \/ \E r \in Requests : route_public_connection_select(r)
    \/ \E r \in Requests : route_public_connection_503(r)
    \/ \E r \in Requests : route_public_connection_write(r, TRUE)

Spec == Init /\ [][Next]_vars

\* Authenticated public requests that are no chat completion.
SessionRequests ==
    {req \in PublicRequests :
        /\ early_response(req) = None
        /\ req.body.utf8
        /\ req.method = "GET"}

\* The inputs of the session specification: every kind of first and second
\* command, heartbeats and system reports, hang-ups, and the admin's delete.
NextSessions ==
    \/ \E c \in Conns : handle_control_connections(c)
    \/ \E c \in Conns : peer_closes(c)
    \/ \E c \in Conns : \E cmd \in FirstCommands : \E db_ok \in BOOLEAN :
          handle_single_client_login(c, cmd, db_ok, TRUE)
    \/ \E c \in Conns : handle_single_client_read_error(c)
    \/ \E c \in Conns : \E cmd \in SecondCommands :
          handle_single_client_register(c, cmd)
    \/ \E c \in Conns : handle_single_client_insert(c)
    \/ \E c \in Conns : handle_single_client_register_result(c, TRUE)
    \/ \E c \in Conns : \E models \in HeartbeatModels :
          client_loop_heartbeat(c, models)
    \/ \E c \in Conns : \E metrics \in MetricValues :
          client_loop_system_info(c, metrics, TRUE)
    \/ \E c \in Conns : client_loop_read_error(c)
    \/ \E c \in Conns : client_loop_remove(c, TRUE)
    \/ \E id \in ClientIds : disconnect_client(id)

SpecSessions == Init /\ [][NextSessions]_vars

\* A command of each variant but Heartbeat and SystemInfo.
UnexpectedCommands ==
    {Login("test@example.com", "123456"), LoginByToken(NewToken(1)),
     LoginResult(TRUE, None, Some(NewToken(1))), Register("a1"),
     RegisterResult(TRUE, None), RequestNewProxyConn(1), NewProxyConn(1)}

\* Sessions that log in, register and stay, the commands they read in
\* steady state that are neither Heartbeat nor SystemInfo, and the router.
NextSteady ==
    \/ \E c \in Conns : handle_control_connections(c)
    \/ \E c \in Conns :
          handle_single_client_login(c, Login("test@example.com", "123456"),
                                     TRUE, TRUE)
    \/ \E c \in Conns : \E id \in ClientIds :
          handle_single_client_register(c, Register(id))
    \/ \E c \in Conns : handle_single_client_insert(c)
    \/ \E c \in Conns : handle_single_client_register_result(c, TRUE)
    \/ \E c \in Conns : \E cmd \in UnexpectedCommands :
          client_loop_unexpected(c, cmd)
    \/ \E r \in Requests : \E req \in SessionRequests :
          handle_public_connections(r, req, TRUE)
    \/ \E r \in Requests : route_public_connection_lookup(r)
    \/ \E r \in Requests : route_public_connection_select(r)
    \/ \E r \in Requests : route_public_connection_503(r)
    \/ \E r \in Requests : route_public_connection_write(r, TRUE)

SpecSteady == Init /\ [][NextSteady]_vars

\* The checks of the head: clients that log in and register, every kind of
\* public request, the requests that differ in their credentials only, and
\* connections that give no head at all.
NextAuth ==
    \/ \E c \in Conns : handle_control_connections(c)
    \/ \E c \in Conns :
          handle_single_client_login(c, Login("test@example.com", "123456"),
                                     TRUE, TRUE)
    \/ \E c \in Conns : handle_single_client_register(c, Register("a1"))
    \/ \E c \in Conns : handle_single_client_insert(c)
    \/ \E c \in Conns : handle_single_client_register_result(c, TRUE)
    \/ \E r \in Requests : \E req \in AuthRequests \cup PublicRequests :
          \E peek_ok \in BOOLEAN : handle_public_connections(r, req, peek_ok)
    \/ \E r \in Requests : route_public_connection_lookup(r)
    \/ \E r \in Requests : route_public_connection_select(r)
    \/ \E r \in Requests : route_public_connection_503(r)
    \/ \E r \in Requests : route_public_connection_write(r, TRUE)

SpecAuth == Init /\ [][NextAuth]_vars

\* The control sessions and the administrative disconnect alone.
NextDisconnect ==
    \/ \E c \in Conns : handle_control_connections(c)
    \/ \E c \in Conns : peer_closes(c)
    \/ \E c \in Conns : \E cmd \in FirstCommands : \E db_ok \in BOOLEAN :
          handle_single_client_login(c, cmd, db_ok, TRUE)
    \/ \E c \in Conns : handle_single_client_read_error(c)
    \/ \E c \in Conns : \E cmd \in SecondCommands :
          handle_single_client_register(c, cmd)
    \/ \E c \in Conns : handle_single_client_insert(c)
    \/ \E c \in Conns : handle_single_client_register_result(c, TRUE)
    \/ \E c \in Conns : \E models \in HeartbeatModels :
          client_loop_heartbeat(c, models)
    \/ \E c \in Conns : \E metrics \in MetricValues : \E db_ok \in BOOLEAN :
          client_loop_system_info(c, metrics, db_ok)
    \/ \E c \in Conns : client_loop_read_error(c)
    \/ \E c \in Conns : \E db_ok \in BOOLEAN : client_loop_remove(c, db_ok)
    \/ \E id \in ClientIds : disconnect_client(id)

\* A session task that can go on does: the steps that wait for nothing but
\* the registry mutex or the socket, and the reads that have failed.
FairSessions ==
    /\ \A c \in Conns : WF_vars(handle_single_client_read_error(c))
    /\ \A c \in Conns : WF_vars(handle_single_client_insert(c))
    /\ \A c \in Conns : WF_vars(handle_single_client_register_result(c, TRUE))
    /\ \A c \in Conns : WF_vars(client_loop_read_error(c))
    /\ \A c \in Conns : WF_vars(\E db_ok \in BOOLEAN : client_loop_remove(c, db_ok))

SpecDisconnect == Init /\ [][NextDisconnect]_vars /\ FairSessions

\* The inputs of the pairing specification: clients that log in, register
\* as "a1" (the second to come is turned away while the first is there) and
\* stay; authenticated requests that are no chat completion, and on the
\* proxy port every dial-back a client can make (also a second one for an
\* id that was consumed) or a connection that sends no NewProxyConn; users
\* and clients that close their end of a stream.
ProxyCommands ==
    {None, Some(Register("a1"))} \cup {Some(cmd) : cmd \in DialBacks}
PeerEvents == {"eof", "error"}
PairingSecondCommands == {Register("a1")}

NextPairing ==
    \/ \E c \in Conns : handle_control_connections(c)
    \/ \E c \in Conns : \E cmd \in RoutingFirstCommands :
          handle_single_client_login(c, cmd, TRUE, TRUE)
    \/ \E c \in Conns : \E cmd \in PairingSecondCommands :
          handle_single_client_register(c, cmd)
    \/ \E c \in Conns : handle_single_client_insert(c)
    \/ \E c \in Conns : handle_single_client_register_result(c, TRUE)
    \/ \E r \in Requests : \E req \in SessionRequests :
          handle_public_connections(r, req, TRUE)
    \/ \E r \in Requests : route_public_connection_lookup(r)
    \/ \E r \in Requests : route_public_connection_select(r)
    \/ \E r \in Requests : route_public_connection_503(r)
    \/ \E r \in Requests : route_public_connection_write(r, TRUE)
    \/ \E p \in ProxyConns : \E cmd \in ProxyCommands :
          handle_proxy_connections(p, cmd)
    \/ \E r \in Requests : \E how \in PeerEvents : user_closes(r, how)
    \/ \E p \in ProxyConns : \E how \in PeerEvents : proxy_closes(p, how)
    \/ \E p \in ProxyConns : join_streams(p)

SpecPairing == Init /\ [][NextPairing]_vars

\* Pairs that no client dials back for: clients that log in, register as
\* "a1" and hang up or break off, requests that are given a pair, and users
\* that go away.
NextLeak ==
    \/ \E c \in Conns : handle_control_connections(c)
    \/ \E c \in Conns : peer_closes(c)
    \/ \E c \in Conns : \E cmd \in RoutingFirstCommands :
          handle_single_client_login(c, cmd, TRUE, TRUE)
    \/ \E c \in Conns : handle_single_client_read_error(c)
    \/ \E c \in Conns : \E cmd \in PairingSecondCommands :
          handle_single_client_register(c, cmd)
    \/ \E c \in Conns : handle_single_client_insert(c)
    \/ \E c \in Conns : handle_single_client_register_result(c, TRUE)
    \/ \E c \in Conns : client_loop_read_error(c)
    \/ \E c \in Conns : client_loop_remove(c, TRUE)
    \/ \E r \in Requests : \E req \in SessionRequests :
          handle_public_connections(r, req, TRUE)
    \/ \E r \in Requests : route_public_connection_lookup(r)
    \/ \E r \in Requests : route_public_connection_select(r)
    \/ \E r \in Requests : route_public_connection_503(r)
    \/ \E r \in Requests : route_public_connection_write(r, TRUE)
    \/ \E r \in Requests : \E how \in PeerEvents : user_closes(r, how)

SpecLeak == Init /\ [][NextLeak]_vars

\* The inputs of the wire specification: clients that log in, with the right
\* or the wrong password, and register as "a1"; sockets that take a whole
\* frame at once or only its length prefix, so that a write is suspended in
\* write_all with the writer mutex held; authenticated requests that are no
\* chat completion.
WireFirstCommands ==
    {Login("test@example.com", "123456"), Login("test@example.com", "wrong")}

NextWire ==
    \/ \E c \in Conns : handle_control_connections(c)
    \/ \E c \in Conns : peer_closes(c)
    \/ \E c \in Conns : \E cmd \in WireFirstCommands : \E room \in BOOLEAN :
          handle_single_client_login(c, cmd, TRUE, room)
    \/ \E c \in Conns : handle_single_client_login_result(c)
    \/ \E c \in Conns : handle_single_client_read_error(c)
    \/ \E c \in Conns : \E cmd \in PairingSecondCommands :
          handle_single_client_register(c, cmd)
    \/ \E c \in Conns : handle_single_client_insert(c)
    \/ \E c \in Conns : \E room \in BOOLEAN :
          handle_single_client_register_result(c, room)
    \/ \E c \in Conns : client_loop_read_error(c)
    \/ \E c \in Conns : client_loop_remove(c, TRUE)
    \/ \E r \in Requests : \E req \in SessionRequests :
          handle_public_connections(r, req, TRUE)
    \/ \E r \in Requests : route_public_connection_lookup(r)
    \/ \E r \in Requests : route_public_connection_select(r)
    \/ \E r \in Requests : route_public_connection_503(r)
    \/ \E r \in Requests : \E room \in BOOLEAN :
          route_public_connection_write(r, room)

SpecWire == Init /\ [][NextWire]_vars

\* The happy path: clients that log in, register as "a1" and stay connected,
\* authenticated requests that are no chat completion, sockets that take a
\* frame at once, and a client that dials back once for each pair it was
\* asked for; users and clients may close their end of a spliced stream.
DialBack(id) ==
    \E p \in ProxyConns :
        /\ NewProxyConn(id) \in PendingDialBacks
        /\ handle_proxy_connections(p, Some(NewProxyConn(id)))

NextHappy ==
    \/ \E c \in Conns : handle_control_connections(c)
    \/ \E c \in Conns : \E cmd \in RoutingFirstCommands :
          handle_single_client_login(c, cmd, TRUE, TRUE)
    \/ \E c \in Conns : \E cmd \in PairingSecondCommands :
          handle_single_client_register(c, cmd)
    \/ \E c \in Conns : handle_single_client_insert(c)
    \/ \E c \in Conns : handle_single_client_register_result(c, TRUE)
    \/ \E r \in Requests : \E req \in SessionRequests :
          handle_public_connections(r, req, TRUE)
    \/ \E r \in Requests : route_public_connection_lookup(r)
    \/ \E r \in Requests : route_public_connection_select(r)
    \/ \E r \in Requests : route_public_connection_503(r)
    \/ \E r \in Requests : route_public_connection_write(r, TRUE)
    \/ \E id \in 1..NumRequests : DialBack(id)
    \/ \E r \in Requests : \E how \in PeerEvents : user_closes(r, how)
    \/ \E p \in ProxyConns : \E how \in PeerEvents : proxy_closes(p, how)
    \/ \E p \in ProxyConns : join_streams(p)

\* The tokio runtime runs every spawned task that is ready: a task that can
\* take its next step takes it.  A client on the happy path answers every
\* RequestNewProxyConn.  Arrivals and hang-ups are under no obligation.
Fairness ==
    /\ \A c \in Conns : WF_vars(handle_single_client_insert(c))
    /\ \A c \in Conns : WF_vars(handle_single_client_register_result(c, TRUE))
    /\ \A r \in Requests : WF_vars(route_public_connection_lookup(r))
    /\ \A r \in Requests : WF_vars(route_public_connection_select(r))
    /\ \A r \in Requests : WF_vars(route_public_connection_503(r))
    /\ \A r \in Requests : WF_vars(route_public_connection_write(r, TRUE))
    /\ \A p \in ProxyConns : WF_vars(join_streams(p))
    /\ \A id \in 1..NumRequests : WF_vars(DialBack(id))

SpecHappy == Init /\ [][NextHappy]_vars /\ Fairness

\* ------------------------------------------------------------ the mutexes

\* The mutexes of frps: the ones of AppState and the writer of a connection.
user_db_mutex == <<"user_db", 0>>
token_db_mutex == <<"token_db", 0>>
active_clients_mutex == <<"active_clients", 0>>
pending_connections_mutex == <<"pending_connections", 0>>
total_connections_mutex == <<"total_connections", 0>>
writer_mutex(c) == <<"writer", c>>

\* `m.lock().await`, and the end of the life of the guard it returned.
lock(m) == [op |-> "lock", mutex |-> m]
drop(m) == [op |-> "drop", mutex |-> m]

\* A stretch of code: the mutex operations on it and the place it leads to.
Stretch(ops, to) == [ops |-> ops, to |-> to]

\* handle_single_client on connection c.  The login: Login with a good
\* password (users, then tokens, then the writer for the LoginResult; the
\* guards go at the end of their blocks) or LoginByToken with a good token
\* (the writer alone); a login that is refused (users and writer, or the
\* writer alone), after which the function returns.  The Register: `clients`
\* is taken and lives to the end of the block, the RegisterResult is
\* written inside; after a rejection the function returns.  client_loop:
\* `clients` for a Heartbeat or a SystemInfo, and for the removal after Err.
login_locks(c) ==
    {<<lock(user_db_mutex), lock(token_db_mutex), lock(writer_mutex(c)),
       drop(writer_mutex(c)), drop(token_db_mutex), drop(user_db_mutex)>>,
     <<lock(writer_mutex(c)), drop(writer_mutex(c))>>}
refused_login_locks(c) ==
    {<<lock(user_db_mutex), lock(writer_mutex(c)), drop(writer_mutex(c)),
       drop(user_db_mutex)>>,
     <<lock(writer_mutex(c)), drop(writer_mutex(c))>>}
register_locks_WriterFirst(c) ==
    <<lock(writer_mutex(c)), lock(active_clients_mutex),
      drop(active_clients_mutex), drop(writer_mutex(c))>>
register_locks(c) ==
    <<lock(active_clients_mutex), lock(writer_mutex(c)),
      drop(writer_mutex(c)), drop(active_clients_mutex)>>
client_loop_locks ==
    <<lock(active_clients_mutex), drop(active_clients_mutex)>>

handle_single_client_locks(c, at) ==
    IF at = "spawn" THEN
        {Stretch(ops, "authed") : ops \in login_locks(c)}
        \cup {Stretch(ops, "return") : ops \in refused_login_locks(c)}
    ELSE IF at = "authed" THEN
        {Stretch(register_locks(c), to) : to \in {"client_loop", "return"}}
    ELSE IF at = "client_loop" THEN
        {Stretch(client_loop_locks, "return")}
    ELSE {}

\* The task spawned by handle_public_connections: the counter, then
\* route_public_connection, which returns after the 400 or 401, or takes
\* `clients` for the lookup and drops it; takes it again and sends the 503
\* or inserts into the pairing table; then takes the writer of the chosen
\* record (the one of some connection c) for the write; on failure drops it
\* and takes the pairing table again; `clients` lives to the return.
route_public_connection_locks(at) ==
    IF at = "spawn" THEN
        {Stretch(<<lock(total_connections_mutex),
                   drop(total_connections_mutex)>>, "route")}
    ELSE IF at = "route" THEN
        {Stretch(<<>>, "return"),
         Stretch(<<lock(active_clients_mutex), drop(active_clients_mutex)>>,
                 "select")}
    ELSE IF at = "select" THEN
        {Stretch(<<lock(active_clients_mutex), drop(active_clients_mutex)>>,
                 "return"),
         Stretch(<<lock(active_clients_mutex), lock(pending_connections_mutex),
                   drop(pending_connections_mutex)>>, "write")}
    ELSE IF at = "write" THEN
        {Stretch(<<lock(writer_mutex(c)), drop(writer_mutex(c))>>, "written")
            : c \in Conns}
    ELSE IF at = "written" THEN
        {Stretch(<<drop(active_clients_mutex)>>, "return"),
         Stretch(<<lock(pending_connections_mutex),
                   drop(pending_connections_mutex),
                   drop(active_clients_mutex)>>, "return")}
    ELSE {}

\* The task spawned by handle_proxy_connections: `pending` around the
\* remove, when a NewProxyConn was read.
handle_proxy_connections_locks(at) ==
    IF at = "spawn" THEN
        {Stretch(<<>>, "return"),
         Stretch(<<lock(pending_connections_mutex),
                   drop(pending_connections_mutex)>>, "return")}
    ELSE {}

\* The admin API: get_stats, get_connections, get_pending_connections,
\* disconnect_client (and the other handlers that take `clients` alone),
\* get_users, get_active_tokens.
get_stats_locks ==
    <<lock(active_clients_mutex), lock(pending_connections_mutex),
      lock(total_connections_mutex), drop(total_connections_mutex),
      drop(pending_connections_mutex), drop(active_clients_mutex)>>
get_connections_locks ==
    <<lock(active_clients_mutex), lock(pending_connections_mutex),
      drop(pending_connections_mutex), drop(active_clients_mutex)>>
admin_locks(at) ==
    IF at = "spawn" THEN
        {Stretch(ops, "return") : ops \in
            {get_stats_locks, get_connections_locks,
             <<lock(pending_connections_mutex), drop(pending_connections_mutex)>>,
             <<lock(active_clients_mutex), drop(active_clients_mutex)>>,
             <<lock(user_db_mutex), drop(user_db_mutex)>>,
             <<lock(token_db_mutex), drop(token_db_mutex)>>}}
    ELSE {}

\* The stretches task t can go on with.
LockPaths(t) ==
    IF t[1] = "control" THEN handle_single_client_locks(t[2], lock_task[t].at)
    ELSE IF t[1] = "public" THEN route_public_connection_locks(lock_task[t].at)
    ELSE handle_proxy_connections_locks(lock_task[t].at)
         \cup admin_locks(lock_task[t].at)

\* The mutexes task t holds, and the operation it comes to next.
Held(t) == lock_task[t].held
Running(t) == lock_task[t].ops # <<>>
NextOp(t) == Head(lock_task[t].ops)

server_vars == <<control_vars, router_vars, shared_vars, wire_vars, proxy_vars>>

\* Task t, spawned or at the end of a stretch, goes on with the next one.
proceed(t, stretch) ==
    /\ ~Running(t)
    /\ lock_task' = [lock_task EXCEPT ![t] =
                        LockTask(stretch.to, stretch.ops, Held(t))]
    /\ UNCHANGED <<server_vars, client_vars, framing_vars, log_vars, stream_vars>>

\* Mutex::lock: returns the guard once no task holds the mutex (the task
\* itself included: the mutex is not reentrant).
mutex_lock(t) ==
    /\ Running(t)
    /\ NextOp(t).op = "lock"
    /\ \A u \in LockTasks : NextOp(t).mutex \notin Held(u)
    /\ lock_task' = [lock_task EXCEPT ![t] =
                        LockTask(@.at, Tail(@.ops), @.held \cup {NextOp(t).mutex})]
    /\ UNCHANGED <<server_vars, client_vars, framing_vars, log_vars, stream_vars>>

\* The guard goes out of scope.
guard_drop(t) ==
    /\ Running(t)
    /\ NextOp(t).op = "drop"
    /\ lock_task' = [lock_task EXCEPT ![t] =
                        LockTask(@.at, Tail(@.ops), @.held \ {NextOp(t).mutex})]
    /\ UNCHANGED <<server_vars, client_vars, framing_vars, log_vars, stream_vars>>

NextLocks ==
    \/ \E t \in LockTasks : \E stretch \in LockPaths(t) : proceed(t, stretch)
    \/ \E t \in LockTasks : mutex_lock(t)
    \/ \E t \in LockTasks : guard_drop(t)

SpecLocks == Init /\ [][NextLocks]_vars

\* ------------------------------------------------------------------- frpc

\* The states in which a task of frpc has ended, and the other ones.
Ended == {"none", "finished", "failed", "stopped", "cancelled"}
PairStages_LocalFirst ==
    <<"connect_proxy", "connect_local", "write_new_proxy_conn", "join_streams">>
PairStages ==
    <<"connect_proxy", "write_new_proxy_conn", "connect_local", "join_streams">>

\* `let notify_cmd = Command::NewProxyConn { proxy_conn_id: proxy_conn_id.clone() }`
notify_cmd(id) == NewProxyConn(id)

\* #[tokio::main]: when main returns the runtime is dropped, which cancels
\* every task that has not ended, and the process exits.
runtime_drop_Detached(task) == task
runtime_drop(task) == IF task \in Ended THEN task ELSE "cancelled"

\* `if let Err(e) = create_proxy_connection(..).await { error!(..) }`: the
\* error of a pair task is logged inside the task.
pair_error_Propagated(main) == "returned"
pair_error(main) == main

\* The server closes the control channel (eof) or the channel breaks.
control_closes(how) ==
    /\ frpc_main = "command_loop"
    /\ frpc_control = "open"
    /\ frpc_control' = how
    /\ UNCHANGED <<frpc_main, heartbeat_task, pair_task, proxy_written,
                   local_stream>>
    /\ UNCHANGED <<server_vars, lock_vars, framing_vars, log_vars, stream_vars>>

\* main, the command loop, Ok(cmd): a task is spawned for a
\* RequestNewProxyConn; any other command is logged.
frpc_main_command(cmd) ==
    /\ frpc_main = "command_loop"
    /\ frpc_control = "open"
    /\ pair_task' =
          IF cmd.type = "RequestNewProxyConn"
          THEN [pair_task EXCEPT ![cmd.proxy_conn_id] = PairStages[1]]
          ELSE pair_task
    /\ UNCHANGED <<frpc_main, frpc_control, heartbeat_task, proxy_written,
                   local_stream>>
    /\ UNCHANGED <<server_vars, lock_vars, framing_vars, log_vars, stream_vars>>

\* main, the command loop, Err(_): break, and main returns Ok(()).
frpc_main_read_error ==
    /\ frpc_main = "command_loop"
    /\ frpc_control # "open"
    /\ frpc_main' = "returned"
    /\ heartbeat_task' = runtime_drop(heartbeat_task)
    /\ pair_task' = [id \in DOMAIN pair_task |-> runtime_drop(pair_task[id])]
    /\ UNCHANGED <<frpc_control, proxy_written, local_stream>>
    /\ UNCHANGED <<server_vars, lock_vars, framing_vars, log_vars, stream_vars>>

\* create_proxy_connection for pair id, one await at a time: connect to the
\* proxy port, write NewProxyConn, connect to the local service,
\* join_streams; each can fail, which ends the task with Err.
create_proxy_connection(id, ok) ==
    /\ frpc_main = "command_loop"
    /\ \E i \in 1..Len(PairStages) :
          /\ pair_task[id] = PairStages[i]
          /\ pair_task' = [pair_task EXCEPT ![id] =
                              IF ~ok THEN "failed"
                              ELSE IF i < Len(PairStages) THEN PairStages[i + 1]
                              ELSE "finished"]
          /\ proxy_written' =
                IF ok /\ PairStages[i] = "write_new_proxy_conn"
                THEN [proxy_written EXCEPT ![id] = Append(@, notify_cmd(id))]
                ELSE proxy_written
          /\ local_stream' =
                IF PairStages[i] = "connect_local"
                THEN [local_stream EXCEPT ![id] =
                         IF ok THEN "open" ELSE "refused"]
                ELSE IF PairStages[i] = "join_streams"
                THEN [local_stream EXCEPT ![id] = "closed"]
                ELSE local_stream
    /\ frpc_main' = IF ok THEN frpc_main ELSE pair_error(frpc_main)
    /\ UNCHANGED <<frpc_control, heartbeat_task>>
    /\ UNCHANGED <<server_vars, lock_vars, framing_vars, log_vars, stream_vars>>

\* The heartbeat task: after a tick the Heartbeat is written, then the
\* SystemInfo; a write that fails ends the task.
heartbeat(ok) ==
    /\ frpc_main = "command_loop"
    /\ heartbeat_task \in {"tick", "heartbeat_sent"}
    /\ heartbeat_task' =
          IF ~ok THEN "stopped"
          ELSE IF heartbeat_task = "tick" THEN "heartbeat_sent" ELSE "tick"
    /\ UNCHANGED <<frpc_main, frpc_control, pair_task, proxy_written,
                   local_stream>>
    /\ UNCHANGED <<server_vars, lock_vars, framing_vars, log_vars, stream_vars>>

\* What the server sends on the control channel in steady state: a
\* RequestNewProxyConn with an id not used before; and a stray command.
ControlCommands ==
    {RequestNewProxyConn(id) :
        id \in {n \in 1..NumRequests : pair_task[n] = "none"}}
    \cup {RegisterResult(TRUE, None)}

NextClient ==
    \/ \E how \in PeerEvents : control_closes(how)
    \/ \E cmd \in ControlCommands : frpc_main_command(cmd)
    \/ frpc_main_read_error
    \/ \E id \in 1..NumRequests : \E ok \in BOOLEAN :
          create_proxy_connection(id, ok)
    \/ \E ok \in BOOLEAN : heartbeat(ok)

\* frpc as the client of the server: it reads the RequestNewProxyConn the
\* server wrote to its session, each once; the server reads on a proxy
\* connection what a pair task wrote on it; and the client's end of a proxy
\* connection closes when the task that owns it has ended.
Unread ==
    {RequestNewProxyConn(id) :
        id \in {n \in 1..uuid_counter :
                    /\ pair_task[n] = "none"
                    /\ \E c \in Conns : \E i \in 1..Len(sent[c]) :
                          sent[c][i] = RequestNewProxyConn(n)}}

Dialed(p) ==
    \E id \in 1..NumRequests :
        /\ proxy_written[id] # <<>>
        /\ \A q \in ProxyConns :
              new_proxy_conn[q] # Some(proxy_written[id][1].proxy_conn_id)
        /\ handle_proxy_connections(p, Some(proxy_written[id][1]))

HangUp(p) ==
    /\ IsSome(new_proxy_conn[p])
    /\ pair_task[Unwrap(new_proxy_conn[p])] \in Ended
    /\ \E how \in PeerEvents : proxy_closes(p, how)

NextDial ==
    \/ \E c \in Conns : handle_control_connections(c)
    \/ \E c \in Conns :
          handle_single_client_login(c, Login("test@example.com", "123456"),
                                     TRUE, TRUE)
    \/ \E c \in Conns : handle_single_client_register(c, Register("a1"))
    \/ \E c \in Conns : handle_single_client_insert(c)
    \/ \E c \in Conns : handle_single_client_register_result(c, TRUE)
    \/ \E r \in Requests : \E req \in SessionRequests :
          handle_public_connections(r, req, TRUE)
    \/ \E r \in Requests : route_public_connection_lookup(r)
    \/ \E r \in Requests : route_public_connection_select(r)
    \/ \E r \in Requests : route_public_connection_503(r)
    \/ \E r \in Requests : route_public_connection_write(r, TRUE)
    \/ \E cmd \in Unread : frpc_main_command(cmd)
    \/ \E id \in 1..NumRequests : \E ok \in BOOLEAN :
          create_proxy_connection(id, ok)
    \/ \E p \in ProxyConns : Dialed(p)
    \/ \E p \in ProxyConns : HangUp(p)
    \/ \E p \in ProxyConns : join_streams(p)

\* The runtime of the server runs every task that is ready; the bytes a pair
\* task wrote on its proxy connection, and the close of a connection whose
\* owner has ended, reach the server.
FairDial ==
    /\ \A p \in ProxyConns : WF_vars(Dialed(p))
    /\ \A p \in ProxyConns : WF_vars(HangUp(p))
    /\ \A p \in ProxyConns : WF_vars(join_streams(p))

SpecDial == Init /\ [][NextDial]_vars /\ FairDial

\* main is a task of the runtime: when its read has returned it goes on.
SpecClient == Init /\ [][NextClient]_vars /\ WF_vars(frpc_main_read_error)

\* ---------------------------------------------------------------- framing

\* Frames written to one stream before it is read to its end.
MaxCommands == 2

\* A payload byte is the character it encodes; a String is the sequence of
\* its characters.
Q == "\""
Backslash == "\\"
Digits == <<"0", "1", "2", "3", "4", "5", "6", "7", "8", "9">>

\* f32 values: the finite ones with one decimal (tenths of a unit), and the
\* ones that are not finite.
Finite(tenths) == [class |-> "finite", tenths |-> tenths]
NaN == [class |-> "nan", tenths |-> 0]
Infinity == [class |-> "infinite", tenths |-> 0]

SystemInfo(cpu_usage, memory_usage, disk_usage, computer_name) ==
    [type |-> "SystemInfo", cpu_usage |-> cpu_usage,
     memory_usage |-> memory_usage, disk_usage |-> disk_usage,
     computer_name |-> computer_name]

Model(id, object, created, owned_by) ==
    [id |-> id, object |-> object, created |-> created, owned_by |-> owned_by]

\* #[derive(Serialize, Deserialize)] struct Model: its fields in order.
ModelFields ==
    <<[name |-> "id", key |-> <<"i", "d">>,
            ty |-> "String"],
           [name |-> "object", key |-> <<"o", "b", "j", "e", "c", "t">>,
            ty |-> "String"],
           [name |-> "created", key |-> <<"c", "r", "e", "a", "t", "e", "d">>,
            ty |-> "u64"],
           [name |-> "owned_by", key |-> <<"o", "w", "n", "e", "d", "_", "b", "y">>,
            ty |-> "String"]>>

\* #[derive(Serialize, Deserialize)] enum Command: the name of each variant
\* as it is written, and its fields in order.
VariantName ==
    ("Register" :> <<"R", "e", "g", "i", "s", "t", "e", "r">>) @@
    ("RegisterResult" :> <<"R", "e", "g", "i", "s", "t", "e", "r", "R", "e", "s", "u", "l", "t">>) @@
    ("RequestNewProxyConn" :> <<"R", "e", "q", "u", "e", "s", "t", "N", "e", "w", "P", "r", "o", "x", "y", "C", "o", "n", "n">>) @@
    ("NewProxyConn" :> <<"N", "e", "w", "P", "r", "o", "x", "y", "C", "o", "n", "n">>) @@
    ("Login" :> <<"L", "o", "g", "i", "n">>) @@
    ("LoginByToken" :> <<"L", "o", "g", "i", "n", "B", "y", "T", "o", "k", "e", "n">>) @@
    ("LoginResult" :> <<"L", "o", "g", "i", "n", "R", "e", "s", "u", "l", "t">>) @@
    ("Heartbeat" :> <<"H", "e", "a", "r", "t", "b", "e", "a", "t">>) @@
    ("SystemInfo" :> <<"S", "y", "s", "t", "e", "m", "I", "n", "f", "o">>)

VariantFields ==
    ("Register" :>
     <<[name |-> "client_id", key |-> <<"c", "l", "i", "e", "n", "t", "_", "i", "d">>,
          ty |-> "String"]>>) @@
    ("RegisterResult" :>
     <<[name |-> "success", key |-> <<"s", "u", "c", "c", "e", "s", "s">>,
          ty |-> "bool"],
         [name |-> "error", key |-> <<"e", "r", "r", "o", "r">>,
          ty |-> "Option<String>"]>>) @@
    ("RequestNewProxyConn" :>
     <<[name |-> "proxy_conn_id", key |-> <<"p", "r", "o", "x", "y", "_", "c", "o", "n", "n", "_", "i", "d">>,
          ty |-> "String"]>>) @@
    ("NewProxyConn" :>
     <<[name |-> "proxy_conn_id", key |-> <<"p", "r", "o", "x", "y", "_", "c", "o", "n", "n", "_", "i", "d">>,
          ty |-> "String"]>>) @@
    ("Login" :>
     <<[name |-> "email", key |-> <<"e", "m", "a", "i", "l">>,
          ty |-> "String"],
         [name |-> "pass", key |-> <<"p", "a", "s", "s">>,
          ty |-> "String"]>>) @@
    ("LoginByToken" :>
     <<[name |-> "token", key |-> <<"t", "o", "k", "e", "n">>,
          ty |-> "String"]>>) @@
    ("LoginResult" :>
     <<[name |-> "success", key |-> <<"s", "u", "c", "c", "e", "s", "s">>,
          ty |-> "bool"],
         [name |-> "error", key |-> <<"e", "r", "r", "o", "r">>,
          ty |-> "Option<String>"],
         [name |-> "token", key |-> <<"t", "o", "k", "e", "n">>,
          ty |-> "Option<String>"]>>) @@
    ("Heartbeat" :>
     <<[name |-> "models", key |-> <<"m", "o", "d", "e", "l", "s">>,
          ty |-> "Option<Vec<Model>>"]>>) @@
    ("SystemInfo" :>
     <<[name |-> "cpu_usage", key |-> <<"c", "p", "u", "_", "u", "s", "a", "g", "e">>,
          ty |-> "f32"],
         [name |-> "memory_usage", key |-> <<"m", "e", "m", "o", "r", "y", "_", "u", "s", "a", "g", "e">>,
          ty |-> "f32"],
         [name |-> "disk_usage", key |-> <<"d", "i", "s", "k", "_", "u", "s", "a", "g", "e">>,
          ty |-> "f32"],
         [name |-> "computer_name", key |-> <<"c", "o", "m", "p", "u", "t", "e", "r", "_", "n", "a", "m", "e">>,
          ty |-> "String"]>>)

\* u32::to_be_bytes of `buf.len() as u32`: the four base-256 digits, most
\* significant first (higher digits are cut off by the cast).
to_be_bytes(len) ==
    <<(len \div (256 * 256 * 256)) % 256, (len \div (256 * 256)) % 256,
      (len \div 256) % 256, len % 256>>

\* u32::from_be_bytes
from_be_bytes(b) == ((b[1] * 256 + b[2]) * 256 + b[3]) * 256 + b[4]

\* The concatenation of the sequences of seqs, by halves.
RECURSIVE Concat(_)
Concat(seqs) ==
    IF Len(seqs) = 0 THEN <<>>
    ELSE IF Len(seqs) = 1 THEN seqs[1]
    ELSE LET half == Len(seqs) \div 2 IN
         Concat(SubSeq(seqs, 1, half))
         \o Concat(SubSeq(seqs, half + 1, Len(seqs)))

\* serde_json, a string: quoted, with quote and backslash escaped.
ser_str(str) ==
    <<Q>>
    \o Concat([i \in 1..Len(str) |->
                 IF str[i] \in {Q, Backslash} THEN <<Backslash, str[i]>>
                 ELSE <<str[i]>>])
    \o <<Q>>

\* serde_json, an unsigned integer: its decimal digits.
RECURSIVE ser_u64(_)
ser_u64(n) ==
    IF n < 10 THEN <<Digits[n + 1]>>
    ELSE ser_u64(n \div 10) \o <<Digits[(n % 10) + 1]>>

\* serde_json, serialize_f32: a value that is not finite is written as
\* null, a finite one in decimal.
ser_f32(x) ==
    IF x.class = "finite"
    THEN ser_u64(x.tenths \div 10) \o <<".">> \o ser_u64(x.tenths % 10)
    ELSE <<"n", "u", "l", "l">>

RECURSIVE ser_value(_, _), ser_struct(_, _)

\* serde_json, a value of the type named ty.
ser_value(ty, x) ==
    CASE ty = "String" -> ser_str(x)
      [] ty = "bool" -> IF x THEN <<"t", "r", "u", "e">>
                        ELSE <<"f", "a", "l", "s", "e">>
      [] ty = "u64" -> ser_u64(x)
      [] ty = "f32" -> ser_f32(x)
      [] ty = "Option<String>" ->
            IF x = None THEN <<"n", "u", "l", "l">> ELSE ser_str(Unwrap(x))
      [] ty = "Option<Vec<Model>>" ->
            IF x = None THEN <<"n", "u", "l", "l">>
            ELSE LET v == Unwrap(x) IN
                 <<"[">>
                 \o Concat([i \in 1..Len(v) |->
                              (IF i > 1 THEN <<",">> ELSE <<>>)
                              \o ser_struct(ModelFields, v[i])])
                 \o <<"]">>

\* serde_json, a struct: {"key":value,...} with the fields in order.
ser_struct(fields, x) ==
    <<"{">>
    \o Concat([i \in 1..Len(fields) |->
                 (IF i > 1 THEN <<",">> ELSE <<>>)
                 \o ser_str(fields[i].key) \o <<":">>
                 \o ser_value(fields[i].ty, x[fields[i].name])])
    \o <<"}">>

\* serde_json::to_vec(command): {"Variant":{..}}
to_vec(command) ==
    <<"{">> \o ser_str(VariantName[command.type]) \o <<":">>
    \o ser_struct(VariantFields[command.type], command) \o <<"}">>

\* A step of the deserializer: the value read and the index after it, or a
\* failure.
Parsed(value, next) == [ok |-> TRUE, value |-> value, next |-> next]
Failed == [ok |-> FALSE, value |-> <<>>, next |-> 0]

\* The index after the literal lit if buf holds it at index i, else 0.
expect(buf, i, lit) ==
    IF /\ i > 0
       /\ i + Len(lit) - 1 <= Len(buf)
       /\ SubSeq(buf, i, i + Len(lit) - 1) = lit
    THEN i + Len(lit) ELSE 0

\* In a string whose characters start at index lo, the character at index j
\* follows an odd number of backslashes: it is taken as it is.
Escaped(buf, lo, j) ==
    \E r \in lo..(j - 1) :
        /\ (j - r) % 2 = 1
        /\ r = lo \/ buf[r - 1] # Backslash
        /\ \A k \in r..(j - 1) : buf[k] = Backslash

\* serde_json, a string: up to the closing quote, a backslash taking the
\* character after it.
de_str(buf, i) ==
    IF expect(buf, i, <<Q>>) = 0 THEN Failed
    ELSE LET lo == i + 1
             closing == {j \in lo..Len(buf) :
                           buf[j] = Q /\ ~Escaped(buf, lo, j)}
         IN IF closing = {} THEN Failed
            ELSE LET close == CHOOSE j \in closing :
                                 \A other \in closing : j <= other
                 IN Parsed(Concat([k \in 1..(close - lo) |->
                              IF /\ buf[lo + k - 1] = Backslash
                                 /\ ~Escaped(buf, lo, lo + k - 1)
                              THEN <<>> ELSE <<buf[lo + k - 1]>>]),
                           close + 1)

DigitValue(d) == (CHOOSE k \in 1..10 : Digits[k] = d) - 1
IsDigit(buf, i) == i > 0 /\ i <= Len(buf) /\ \E k \in 1..10 : Digits[k] = buf[i]

\* serde_json, an unsigned integer: one digit or more.
RECURSIVE de_u64_tail(_, _, _)
de_u64_tail(buf, i, acc) ==
    IF IsDigit(buf, i)
    THEN de_u64_tail(buf, i + 1, acc * 10 + DigitValue(buf[i]))
    ELSE Parsed(acc, i)

de_u64(buf, i) ==
    IF IsDigit(buf, i) THEN de_u64_tail(buf, i, 0) ELSE Failed

\* serde_json, deserialize_f32: a number; null is an invalid type for it.
de_f32(buf, i) ==
    LET int == de_u64(buf, i) IN
    IF ~int.ok THEN Failed
    ELSE IF expect(buf, int.next, <<".">>) = 0
         THEN Parsed(Finite(int.value * 10), int.next)
    ELSE IF ~IsDigit(buf, int.next + 1) THEN Failed
    ELSE LET frac == de_u64(buf, int.next + 2) IN
         Parsed(Finite(int.value * 10 + DigitValue(buf[int.next + 1])),
                IF frac.ok THEN frac.next ELSE int.next + 2)

RECURSIVE de_value(_, _, _), de_fields(_, _, _, _, _), de_struct(_, _, _),
          de_models(_, _, _)

\* serde_json, a value of the type named ty.
de_value(ty, buf, i) ==
    CASE ty = "String" -> de_str(buf, i)
      [] ty = "bool" ->
            IF expect(buf, i, <<"t", "r", "u", "e">>) # 0
            THEN Parsed(TRUE, expect(buf, i, <<"t", "r", "u", "e">>))
            ELSE IF expect(buf, i, <<"f", "a", "l", "s", "e">>) # 0
            THEN Parsed(FALSE, expect(buf, i, <<"f", "a", "l", "s", "e">>))
            ELSE Failed
      [] ty = "u64" -> de_u64(buf, i)
      [] ty = "f32" -> de_f32(buf, i)
      [] ty = "Option<String>" ->
            IF expect(buf, i, <<"n", "u", "l", "l">>) # 0
            THEN Parsed(None, expect(buf, i, <<"n", "u", "l", "l">>))
            ELSE LET str == de_str(buf, i) IN
                 IF str.ok THEN Parsed(Some(str.value), str.next) ELSE Failed
      [] ty = "Option<Vec<Model>>" ->
            IF expect(buf, i, <<"n", "u", "l", "l">>) # 0
            THEN Parsed(None, expect(buf, i, <<"n", "u", "l", "l">>))
            ELSE IF expect(buf, i, <<"[">>) = 0 THEN Failed
            ELSE IF expect(buf, i + 1, <<"]">>) # 0
            THEN Parsed(Some(<<>>), i + 2)
            ELSE LET v == de_models(buf, i + 1, <<>>) IN
                 IF v.ok THEN Parsed(Some(v.value), v.next) ELSE Failed

\* The elements of a Vec<Model>, up to the closing bracket.
de_models(buf, i, acc) ==
    LET m == de_struct(ModelFields, buf, i) IN
    IF ~m.ok THEN Failed
    ELSE IF expect(buf, m.next, <<"]">>) # 0
    THEN Parsed(Append(acc, m.value), m.next + 1)
    ELSE IF expect(buf, m.next, <<",">>) # 0
    THEN de_models(buf, m.next + 1, Append(acc, m.value))
    ELSE Failed

\* The fields k.. of a struct, as "key":value separated by commas.
de_fields(fields, k, buf, i, acc) ==
    IF k > Len(fields) THEN Parsed(acc, i)
    ELSE LET sep == IF k > 1 THEN expect(buf, i, <<",">>) ELSE i
             key == expect(buf, sep, ser_str(fields[k].key) \o <<":">>)
             val == de_value(fields[k].ty, buf, key)
         IN IF key = 0 \/ ~val.ok THEN Failed
            ELSE de_fields(fields, k + 1, buf, val.next,
                           acc @@ (fields[k].name :> val.value))

\* serde_json, a struct: its fields between braces.
de_struct(fields, buf, i) ==
    LET open == expect(buf, i, <<"{">>)
        body == de_fields(fields, 1, buf, open, <<>>)
    IN IF open = 0 \/ ~body.ok \/ expect(buf, body.next, <<"}">>) = 0
       THEN Failed
       ELSE Parsed(body.value, body.next + 1)

\* serde_json::from_slice::<Command>(buf): the variant by its name, its
\* fields, and nothing after the closing brace.
from_slice(buf) ==
    LET name == de_str(buf, expect(buf, 1, <<"{">>))
        known == {t \in DOMAIN VariantName : name.ok /\ VariantName[t] = name.value}
    IN IF known = {} THEN Failed
       ELSE LET type == CHOOSE t \in known : TRUE
                body == de_struct(VariantFields[type], buf,
                                  expect(buf, name.next, <<":">>))
            IN IF body.ok /\ expect(buf, body.next, <<"}">>) = Len(buf) + 1
               THEN Parsed(body.value @@ ("type" :> type), Len(buf) + 1)
               ELSE Failed

\* Result<Command>
Ok(command) == [ok |-> TRUE, value |-> command]
Err == [ok |-> FALSE, value |-> <<>>]

\* write_command(writer, command): the length, then the payload.
write_command_frame(command) ==
    /\ Len(written) < MaxCommands
    /\ LET buf == to_vec(command)
           len == Len(buf)
       IN byte_stream' = byte_stream \o to_be_bytes(len) \o buf
    /\ written' = Append(written, command)
    /\ UNCHANGED <<results, consumed>>
    /\ UNCHANGED <<server_vars, lock_vars, client_vars, log_vars, stream_vars>>

\* read_command(reader) on the bytes not yet read: four bytes of length,
\* that many bytes of payload, and the payload deserialized.
read_command_frame ==
    /\ consumed + 4 <= Len(byte_stream)
    /\ LET len_buf == SubSeq(byte_stream, consumed + 1, consumed + 4)
           len == from_be_bytes(len_buf)
       IN /\ consumed + 4 + len <= Len(byte_stream)
          /\ LET buf == SubSeq(byte_stream, consumed + 5, consumed + 4 + len)
                 command == from_slice(buf)
             IN results' = Append(results, IF command.ok THEN Ok(command.value)
                                           ELSE Err)
          /\ consumed' = consumed + 4 + len
    /\ UNCHANGED <<byte_stream, written>>
    /\ UNCHANGED <<server_vars, lock_vars, client_vars, log_vars, stream_vars>>

\* A client id of 250 characters: its frame is longer than 255 bytes.
LongId == [i \in 1..250 |-> "a"]

OneModel == Model(<<"m", "1">>, <<"m">>, 1700, <<"o">>)

\* Commands of every variant, with strings that need escaping, options
\* present and absent, and readings that are and are not finite.
FramingCommands ==
    {Register(<<"a", "1">>), Register(<<Q, Backslash, "a">>), Register(LongId),
     RegisterResult(TRUE, None), RegisterResult(FALSE, Some(<<"n", "o">>)),
     RequestNewProxyConn(<<"7">>), NewProxyConn(<<"7">>),
     Login(<<"u", "@", "x">>, <<"1", "2">>), LoginByToken(<<"t">>),
     LoginResult(TRUE, None, Some(<<"t">>)),
     LoginResult(FALSE, Some(<<"n", "o">>), None),
     Heartbeat(None), Heartbeat(Some(<<>>)),
     Heartbeat(Some(<<OneModel, OneModel>>)),
     SystemInfo(Finite(425), Finite(0), Finite(1000), <<"p", "c">>),
     SystemInfo(Finite(70), NaN, Finite(5), <<"p", "c">>)}

NextFraming ==
    \/ \E command \in FramingCommands : write_command_frame(command)
    \/ read_command_frame

SpecFraming == Init /\ [][NextFraming]_vars

\* ------------------------------------------------------------- properties

\* The sessions that are past login and register, with the socket still held
\* by the server; and those whose peer is still there too.
Registered(c) == cpc[c] \in {"steady", "mark_offline"}
Connected(c) == cpc[c] = "steady" /\ net_up[c]

\* The credentials a first command must carry for a login to be good: a user
\* of user_db with that user's password, or a token of the api_keys table.
GoodCredentials(cmd) ==
    \/ /\ cmd.type = "Login"
       /\ cmd.email \in DOMAIN user_db
       /\ user_db[cmd.email].pass = cmd.pass
    \/ /\ cmd.type = "LoginByToken"
       /\ cmd.token \in ApiKeysTable

\* C1: the keys of the registry are exactly the client_ids of the control
\* connections that are past login and register and still open: every live,
\* registered connection has its record, and every record belongs to a
\* registered connection that is still held by the server.
C1_RegistryIsConnectedClients ==
    /\ \A c \in Conns :
          Connected(c) =>
             /\ Unwrap(client_id[c]) \in DOMAIN active_clients
             /\ active_clients[Unwrap(client_id[c])].writer = c
    /\ \A id \in DOMAIN active_clients :
          LET c == active_clients[id].writer IN
          /\ cpc[c] \in {"register_ack", "steady", "mark_offline"}
          /\ client_id[c] = Some(id)

\* C2: a record is inserted only for an id that has no live record, and it is
\* the inserting connection's; RegisterResult{success=true} is written only
\* by the connection that owns the record, and a rejection only while the id
\* is held by another connection: of two connections that register the same
\* free id, one wins and the other is rejected.
C2_OneRegistrationWins ==
    [][\A c \in Conns :
          /\ (cpc[c] = "register_insert" /\ cpc'[c] = "register_ack") =>
                /\ Unwrap(client_id[c]) \notin DOMAIN active_clients
                /\ active_clients'[Unwrap(client_id[c])].writer = c
          /\ (cpc[c] = "register_ack" /\ cpc'[c] = "steady") =>
                /\ Unwrap(client_id[c]) \in DOMAIN active_clients
                /\ active_clients[Unwrap(client_id[c])].writer = c
          /\ (cpc[c] = "register_reject" /\ cpc'[c] = "closed") =>
                /\ Unwrap(client_id[c]) \in DOMAIN active_clients
                /\ active_clients[Unwrap(client_id[c])].writer # c
      ]_vars

\* Two connections asked for "a1": the first holds the record and is in
\* steady state, the second is being rejected.
C2_Witness ==
    \E c1, c2 \in Conns :
        /\ c1 # c2
        /\ cpc[c1] = "steady" /\ client_id[c1] = Some("a1")
        /\ "a1" \in DOMAIN active_clients /\ active_clients["a1"].writer = c1
        /\ cpc[c2] = "register_reject" /\ client_id[c2] = Some("a1")

\* C3: a Register for an id that is in the registry is rejected: the reply is
\* RegisterResult{success=false, "Client ID already in use"}, the session
\* ends, and neither the registry (the holder's writer, catalog, metrics) nor
\* any other session or connection changes.
C3_DuplicateRegisterRejected ==
    [][\A c \in Conns :
          /\ ( /\ cpc[c] = "await_register"
               /\ Len(handshake'[c]) = 2
               /\ handshake'[c][2].type = "Register"
               /\ handshake'[c][2].client_id \in DOMAIN active_clients )
             => /\ cpc'[c] = "register_reject"
                /\ active_clients' = active_clients
          /\ cpc[c] = "register_reject" =>
                /\ cpc'[c] \in {"register_reject", "closed"}
                /\ active_clients' = active_clients
                /\ cpc'[c] = "closed" =>
                      /\ sent'[c] \in
                            {sent[c],
                             Append(sent[c],
                                    RegisterResult(FALSE, Some("Client ID already in use")))}
                      /\ net_up[c] => sent'[c] # sent[c]
                      /\ \A d \in Conns \ {c} :
                            /\ cpc'[d] = cpc[d]
                            /\ sent'[d] = sent[d]
                            /\ net_up'[d] = net_up[d]
      ]_vars

\* The second connection was told "Client ID already in use" and is closed;
\* the first still holds "a1" with the catalog it advertised.
C3_Witness ==
    \E c1, c2 \in Conns :
        /\ c1 # c2
        /\ cpc[c2] = "closed"
        /\ Len(sent[c2]) = 2
        /\ sent[c2][2] = RegisterResult(FALSE, Some("Client ID already in use"))
        /\ cpc[c1] = "steady"
        /\ "a1" \in DOMAIN active_clients
        /\ active_clients["a1"] = ClientInfo(c1, TRUE, Some(0), Some({"m1"}))

\* C4: every record of the registry has authed = true and was inserted by a
\* connection whose first command was a Login or LoginByToken with good
\* credentials, answered LoginResult{success=true}, and whose second command
\* was the Register of that id.
C4_RecordOnlyAfterLoginAndRegister ==
    \A id \in DOMAIN active_clients :
        LET c == active_clients[id].writer IN
        /\ active_clients[id].authed
        /\ Len(handshake[c]) = 2
        /\ GoodCredentials(handshake[c][1])
        /\ handshake[c][2] = Register(id)
        /\ Len(sent[c]) >= 1
        /\ sent[c][1].type = "LoginResult"
        /\ sent[c][1].success

\* A record whose connection logged in by token, and a connection that sent
\* something else than Register after a good login and was closed.
C4_Witness ==
    /\ \E id \in DOMAIN active_clients :
          handshake[active_clients[id].writer][1].type = "LoginByToken"
    /\ \E c \in Conns :
          /\ cpc[c] = "closed"
          /\ Len(handshake[c]) = 2
          /\ handshake[c][2].type = "Heartbeat"

\* C5: a login that fails (bad credentials, or the token validator's error)
\* is answered by exactly one LoginResult{success=false} with an error text,
\* and the session is closed having read one command: it holds no record.
C5_FailedLoginEndsSession ==
    \A c \in Conns :
        /\ ( /\ Len(handshake[c]) >= 1
             /\ handshake[c][1].type \in {"Login", "LoginByToken"}
             /\ ~GoodCredentials(handshake[c][1]) )
           => /\ Len(sent[c]) >= 1
              /\ sent[c][1].type = "LoginResult"
              /\ ~sent[c][1].success
        /\ ( /\ Len(sent[c]) >= 1
             /\ sent[c][1].type = "LoginResult"
             /\ ~sent[c][1].success )
           => /\ Len(sent[c]) = 1
              /\ IsSome(sent[c][1].error)
              /\ Unwrap(sent[c][1].error) # ""
              /\ sent[c][1].token = None
              /\ cpc[c] = "closed"
              /\ Len(handshake[c]) = 1
              /\ \A id \in DOMAIN active_clients : active_clients[id].writer # c

\* A good token met a failing validator on one connection and a wrong
\* password was refused on the other.
C5_Witness ==
    /\ \E c \in Conns :
          /\ handshake[c] = <<LoginByToken(<<"db", 1>>)>>
          /\ sent[c] = <<LoginResult(FALSE, Some("Database error"), None)>>
    /\ \E c \in Conns :
          /\ handshake[c] = <<Login("test@example.com", "wrong")>>
          /\ cpc[c] = "closed"

\* The request that public connection r carried, and a request's credentials
\* read off the packet: no Authorization header, or a header whose key (the
\* value after an optional "Bearer ") is not the configured one.
RequestOf(r) == Unwrap(request[r])
Unauthenticated(req) ==
    \/ auth_header(req) = None
    \/ provided_key(Unwrap(auth_header(req))) # api_key

\* Nothing of the shared state, and nothing sent to a client, changes.
RouterLeavesSharedState ==
    /\ active_clients' = active_clients
    /\ registry_lock' = registry_lock
    /\ pending_connections' = pending_connections
    /\ uuid_counter' = uuid_counter
    /\ sent' = sent

Advertisers(model) ==
    {id \in DOMAIN active_clients :
        /\ IsSome(active_clients[id].models)
        /\ model \in Unwrap(active_clients[id].models)}

\* The router of r holds the client its model lookup found (the random
\* fallback would have filled client_ids).
ModelRouted(r) ==
    /\ rpc[r] \in {"select", "request_proxy_conn"}
    /\ IsSome(chosen_client_id[r])
    /\ client_ids[r] = {}

\* C7: an authenticated POST /v1/chat/completions naming model M, for which
\* the lookup found an advertiser, and M is advertised by a registered client
\* when the router finishes: the router finishes by writing
\* RequestNewProxyConn to a client whose catalog holds M (a write that fails
\* on a dead connection apart); it never finishes without a dispatch and
\* never dispatches to a client that does not advertise M.
C7_ModelRoutedToAdvertiser ==
    [][\A r \in Requests :
          ( /\ ModelRouted(r)
            /\ rpc'[r] \in {"returned_ok", "returned_err"}
            /\ Advertisers(Unwrap(requested_model(RequestOf(r)))) # {} )
          => /\ rpc[r] = "request_proxy_conn"
             /\ Unwrap(chosen_client_id[r])
                   \in Advertisers(Unwrap(requested_model(RequestOf(r))))
             /\ LET writer == active_clients[Unwrap(chosen_client_id[r])].writer IN
                \/ /\ rpc'[r] = "returned_ok"
                   /\ sent'[writer] =
                         Append(sent[writer],
                                RequestNewProxyConn(Unwrap(proxy_conn_id[r])))
                \/ /\ rpc'[r] = "returned_err"
                   /\ ~net_up[writer]
      ]_vars

\* C8, the choice: once the lookup has found no client (always so for a
\* request that is no chat completion or whose body does not parse), with a
\* registry that is not empty when the router locks it, the router can go on
\* with each registered client and cannot do anything else than go on with
\* one.  C8, the dispatch: the client it goes on with is in the registry,
\* the candidates were the registry's keys, and the router's last step writes
\* RequestNewProxyConn to that client's connection (a write that fails on a
\* dead connection apart).
C8_FallbackChoice ==
    \A r \in Requests :
        /\ (rpc[r] = "select" /\ ~IsSome(requested_model(RequestOf(r))))
              => chosen_client_id[r] = None
        /\ ( /\ rpc[r] = "select"
             /\ chosen_client_id[r] = None
             /\ registry_lock = None
             /\ DOMAIN active_clients # {} )
           => /\ \A id \in DOMAIN active_clients :
                    ENABLED ( /\ route_public_connection_select(r)
                              /\ rpc'[r] = "request_proxy_conn"
                              /\ chosen_client_id'[r] = Some(id) )
              /\ ~ENABLED ( /\ route_public_connection_select(r)
                            /\ rpc'[r] # "request_proxy_conn" )
        /\ (rpc[r] = "request_proxy_conn" /\ client_ids[r] # {})
           => /\ client_ids[r] = DOMAIN active_clients
              /\ Unwrap(chosen_client_id[r]) \in DOMAIN active_clients
              /\ registry_lock = Some(RouterTask(r))
              /\ pending_connections[Unwrap(proxy_conn_id[r])] = r

C8_FallbackDispatch ==
    \A r \in Requests :
        (rpc[r] = "request_proxy_conn" /\ client_ids[r] # {}
            /\ rpc'[r] # "request_proxy_conn")
        => LET writer == active_clients[Unwrap(chosen_client_id[r])].writer IN
           \/ /\ rpc'[r] = "returned_ok"
              /\ sent'[writer] =
                    Append(sent[writer],
                           RequestNewProxyConn(Unwrap(proxy_conn_id[r])))
           \/ /\ rpc'[r] = "returned_err"
              /\ ~net_up[writer]

C9_EmptyRegistryIs503 ==
    [][\A r \in Requests :
          /\ ( /\ rpc[r] = "select"
               /\ rpc'[r] # "select"
               /\ chosen_client_id[r] = None
               /\ DOMAIN active_clients = {} )
             => /\ rpc'[r] = "send_503"
                /\ proxy_conn_id'[r] = None
                /\ active_clients' = active_clients
                /\ pending_connections' = pending_connections
                /\ uuid_counter' = uuid_counter
                /\ sent' = sent
          /\ (rpc[r] = "send_503" /\ rpc'[r] # "send_503")
             => /\ DOMAIN active_clients = {}
                /\ response'[r] =
                      Some([status |-> 503, reason |-> "Error", success |-> FALSE,
                            message |-> "No active clients available"])
                /\ rpc'[r] = "returned_ok"
                /\ user_stream'[r] = "closed"
                /\ active_clients' = active_clients
                /\ pending_connections' = pending_connections
                /\ uuid_counter' = uuid_counter
                /\ sent' = sent
                /\ \A pair \in DOMAIN pending_connections' :
                      pending_connections'[pair] # r
      ]_vars

\* The first request was paired with a client that has since gone; the second
\* found the registry empty and got the 503, and the first one's entry is
\* still the only one in the pairing table.
C9_Witness ==
    /\ response[2] = Some(send_http_error_response(503, "No active clients available"))
    /\ user_stream[2] = "closed"
    /\ active_clients = EmptyMap
    /\ uuid_counter = 1
    /\ DOMAIN pending_connections = {1}
    /\ pending_connections[1] = 1

\* C10: a packet that is no complete HTTP head is answered 400 "Invalid HTTP
\* request format" and the stream closed, in a step that takes no registry
\* mutex and changes neither the registry nor the pairing table, also when
\* the cut head carries the configured key (no 401, no dispatch).
C10_BadHeadIs400 ==
    [][\A r \in Requests :
          /\ ( /\ rpc[r] = "idle"
               /\ IsSome(request'[r])
               /\ Unwrap(request'[r]).head # "complete" )
             => /\ response'[r] =
                      Some([status |-> 400, reason |-> "Bad Request",
                            success |-> FALSE,
                            message |-> "Invalid HTTP request format"])
                /\ rpc'[r] = "returned_ok"
                /\ user_stream'[r] = "closed"
                /\ RouterLeavesSharedState
          /\ (IsSome(response[r]) /\ Unwrap(response[r]).status = 400)
             => /\ rpc'[r] = "returned_ok"
                /\ user_stream'[r] = "closed"
                /\ response'[r] = response[r]
                /\ registry_lock' # Some(RouterTask(r))
                /\ \A pair \in DOMAIN pending_connections' :
                      pending_connections'[pair] # r
      ]_vars

\* A head cut short that carries the configured key got the 400 while a
\* client was registered; so did a packet that is not HTTP.
C10_Witness ==
    /\ \E r \in Requests :
          /\ IsSome(request[r])
          /\ RequestOf(r).head = "partial"
          /\ provided_key(Unwrap(auth_header(RequestOf(r)))) = api_key
          /\ response[r] = Some(send_http_error_response(400, "Invalid HTTP request format"))
          /\ user_stream[r] = "closed"
    /\ \E r \in Requests :
          /\ IsSome(request[r])
          /\ RequestOf(r).head = "error"
          /\ response[r] = Some(send_http_error_response(400, "Invalid HTTP request format"))
    /\ DOMAIN active_clients # {}
    /\ pending_connections = EmptyMap

\* The ids of the RequestNewProxyConn that reached a client whole.
SentPairs ==
    {n \in 1..uuid_counter :
        \E c \in Conns : \E i \in 1..Len(sent[c]) :
            sent[c][i] = RequestNewProxyConn(n)}

\* The proxy connections that were given a user stream.
Joined(p) == IsSome(joined_user[p])

\* C11: when the first part of a RequestNewProxyConn{id} frame goes on a
\* client's wire, the pairing table holds id with a waiting user stream; and
\* a NewProxyConn{id} for an id that was sent to a client either finds the
\* entry or comes after another proxy connection that took it: it never
\* comes before the insertion.
C11_InsertBeforeRequest ==
    [][/\ \A c \in Conns :
             ( /\ Len(wire'[c]) > Len(wire[c])
               /\ wire'[c][Len(wire[c]) + 1].part = "len"
               /\ wire'[c][Len(wire[c]) + 1].of.type = "RequestNewProxyConn" )
             => LET id == wire'[c][Len(wire[c]) + 1].of.proxy_conn_id IN
                /\ id \in DOMAIN pending_connections
                /\ user_stream[pending_connections[id]] = "pending"
       /\ \A p \in ProxyConns :
             ( /\ proxy_stream[p] = "none"
               /\ proxy_stream'[p] # "none"
               /\ IsSome(new_proxy_conn'[p])
               /\ Unwrap(new_proxy_conn'[p]) \in SentPairs )
             => \/ /\ proxy_stream'[p] = "spliced"
                   /\ Unwrap(new_proxy_conn'[p]) \in DOMAIN pending_connections
                   /\ joined_user'[p] =
                         Some(pending_connections[Unwrap(new_proxy_conn'[p])])
                \/ \E q \in ProxyConns \ {p} :
                      /\ new_proxy_conn[q] = new_proxy_conn'[p]
                      /\ Joined(q)
      ]_vars

\* The client was sent RequestNewProxyConn{1}, dialed back, and its
\* NewProxyConn{1} found the user stream of the first request.
C11_Witness ==
    /\ 1 \in SentPairs
    /\ \E p \in ProxyConns :
          /\ new_proxy_conn[p] = Some(1)
          /\ proxy_stream[p] = "spliced"
          /\ joined_user[p] = Some(1)
    /\ user_stream[1] = "spliced"
    /\ 1 \notin DOMAIN pending_connections

\* C12: a user stream is given to at most one proxy connection and an id
\* joins at most one; a spliced user stream has exactly one proxy connection;
\* a stream still in the table has none, and a proxy connection that carried
\* an id already consumed (or an id the router's cleanup removed) is closed
\* without a user stream.
C12_OneOwnerPerPair ==
    /\ \A p, q \in ProxyConns :
          (p # q /\ Joined(p) /\ Joined(q))
          => /\ joined_user[p] # joined_user[q]
             /\ new_proxy_conn[p] # new_proxy_conn[q]
    /\ \A r \in Requests :
          user_stream[r] = "spliced"
          => \E p \in ProxyConns :
                joined_user[p] = Some(r) /\ proxy_stream[p] = "spliced"
    /\ \A id \in DOMAIN pending_connections :
          /\ user_stream[pending_connections[id]] = "pending"
          /\ \A p \in ProxyConns : joined_user[p] # Some(pending_connections[id])
    /\ \A p \in ProxyConns :
          ~Joined(p) => proxy_stream[p] \in {"none", "closed"}

\* Two proxy connections announced id 1: the first got the user stream, the
\* second found no entry and was closed.
C12_Witness ==
    /\ new_proxy_conn[1] = Some(1) /\ joined_user[1] = Some(1)
    /\ new_proxy_conn[2] = Some(1) /\ joined_user[2] = None
    /\ proxy_stream[2] = "closed"
    /\ proxy_stream[1] = "spliced" /\ user_stream[1] = "spliced"

\* C13: when the write of RequestNewProxyConn{P} to the chosen client fails,
\* route_public_connection returns with the registry lock released, the
\* chosen client out of the registry, P out of the pairing table and the
\* user stream closed; every other record and every other pending pair is
\* as it was, and nothing is added.
C13_WriteFailureCleanup ==
    [][\A r \in Requests :
          (rpc[r] = "request_proxy_conn" /\ rpc'[r] = "returned_err")
          => LET id == Unwrap(chosen_client_id[r])
                 P == Unwrap(proxy_conn_id[r])
             IN /\ id \notin DOMAIN active_clients'
                /\ P \notin DOMAIN pending_connections'
                /\ user_stream'[r] = "closed"
                /\ registry_lock' # Some(RouterTask(r))
                /\ DOMAIN active_clients' = DOMAIN active_clients \ {id}
                /\ \A other \in DOMAIN active_clients' :
                      active_clients'[other] = active_clients[other]
                /\ DOMAIN pending_connections' =
                      DOMAIN pending_connections \ {P}
                /\ \A pair \in DOMAIN pending_connections' :
                      /\ pending_connections'[pair] = pending_connections[pair]
                      /\ user_stream'[pending_connections[pair]] = "pending"
      ]_vars

\* The second request was given pair 2 and the write to its client failed:
\* the router returned an error, pair 2 and the client are gone and the
\* stream is closed, while client "a2" and pair 1 of the first request stay.
C13_Witness ==
    /\ rpc[2] = "returned_err"
    /\ uuid_counter = 2
    /\ 2 \notin DOMAIN pending_connections
    /\ user_stream[2] = "closed"
    /\ DOMAIN active_clients = {"a2"}
    /\ DOMAIN pending_connections = {1}
    /\ user_stream[1] = "pending"
    /\ \A c \in Conns : \A i \in 1..Len(sent[c]) :
          sent[c][i] # RequestNewProxyConn(2)

\* The ids that were sent to the client of control connection c in a
\* RequestNewProxyConn and that no proxy connection has claimed yet.
IssuedTo(c) ==
    {n \in DOMAIN pending_connections :
        \E i \in 1..Len(sent[c]) : sent[c][i] = RequestNewProxyConn(n)}

\* Every control session has ended, every router task has returned, no
\* splice is running and no user is still waiting on a pending stream.
Quiet ==
    /\ \A c \in Conns : cpc[c] \in {"idle", "closed"}
    /\ \A r \in Requests : rpc[r] \in {"idle", "returned_ok", "returned_err"}
    /\ \A p \in ProxyConns : proxy_stream[p] # "spliced"
    /\ \A r \in Requests : user_stream[r] = "pending" => user_peer[r] # "open"

\* C14: no entry of the pairing table outlives the activity that made it:
\* once all clients and users have gone quiet, the pairing table is empty.
C14_NoLeakWhenQuiet == Quiet => pending_connections = EmptyMap

\* C15: when the steady-state loop of a registered client ends on a read
\* error, every pair that was issued to that client and is still unmatched
\* leaves the pairing table and its user stream is closed.
C15_DisconnectReleasesPairs ==
    [][\A c \in Conns :
          (cpc[c] = "mark_offline" /\ cpc'[c] = "closed")
          => \A id \in IssuedTo(c) :
                /\ id \notin DOMAIN pending_connections'
                /\ user_stream'[pending_connections[id]] = "closed"
      ]_vars

\* The task that is inside a write_command on control connection c.
WriterOf(c) ==
    {ControlTask(c) : x \in {cpc[c]} \cap
                          {"login_result", "register_ack", "register_reject"}}
    \cup {RouterTask(r) : r \in {q \in Requests :
              /\ rpc[q] = "request_proxy_conn"
              /\ Unwrap(chosen_client_id[q]) \in DOMAIN active_clients
              /\ active_clients[Unwrap(chosen_client_id[q])].writer = c}}

\* C16: on each control connection, what the client decodes from the wire is
\* exactly the commands whose write_command returned Ok, whole and in the
\* order they were written; a length prefix is on the wire without its JSON
\* only while the task that wrote it holds the connection's writer mutex and
\* is still inside its write_command, and the mutex is held by nobody else;
\* a frame is cut short only on a connection that is down.
C16_FramesNeverInterleave ==
    \A c \in Conns :
       /\ read_command(wire[c]) = sent[c]
       /\ Suspended(c) =>
             /\ IsSome(writer_lock[c])
             /\ writer_lock[c] \subseteq WriterOf(c)
       /\ IsSome(writer_lock[c]) => Suspended(c)
       /\ (\E i \in 1..Len(wire[c]) : wire[c][i].part = "reset") => ~net_up[c]

\* The router task of the second request holds the writer mutex of control
\* connection 1 with the length prefix of RequestNewProxyConn{2} written,
\* after LoginResult, RegisterResult and RequestNewProxyConn{1} went out
\* whole on that connection.
C16_Witness ==
    /\ writer_lock[1] = Some(RouterTask(2))
    /\ Suspended(1)
    /\ wire[1][Len(wire[1])].of = RequestNewProxyConn(2)
    /\ Len(sent[1]) = 3
    /\ sent[1][3] = RequestNewProxyConn(1)
    /\ Len(wire[1]) = 7

\* C17: with a client that stays connected and dials back for every id it
\* is asked for, a request that was dispatched (its router task holds pair
\* id, inserted for its user stream, and is about to write the
\* RequestNewProxyConn) is eventually out of the pairing table and joined
\* with the proxy connection that announced id.
C17_HappyPathSplices ==
    \A r \in Requests : \A id \in 1..NumRequests :
        (rpc[r] = "request_proxy_conn" /\ proxy_conn_id[r] = Some(id))
        ~> ( /\ id \notin DOMAIN pending_connections
             /\ \E p \in ProxyConns :
                   /\ new_proxy_conn[p] = Some(id)
                   /\ joined_user[p] = Some(r) )

\* Both requests were dispatched to the client and both are spliced, each
\* with the proxy connection that carried its id.
C17_Witness ==
    /\ SentPairs = {1, 2}
    /\ pending_connections = EmptyMap
    /\ \A id \in {1, 2} : \E p \in ProxyConns :
          /\ new_proxy_conn[p] = Some(id)
          /\ IsSome(joined_user[p])
          /\ proxy_stream[p] = "spliced"
    /\ \A r \in Requests : user_stream[r] = "spliced"

\* C18: a Heartbeat that carries no model list leaves the stored catalog of
\* the client as it was.
C18_HeartbeatWithoutListKeepsCatalog ==
    [][\A c \in Conns :
          ( /\ client_loop_heartbeat(c, None)
            /\ Unwrap(client_id[c]) \in DOMAIN active_clients )
          => active_clients'[Unwrap(client_id[c])].models =
                active_clients[Unwrap(client_id[c])].models
      ]_vars

\* C19: join_streams gives up a splice only on an error or when both
\* sources have reported EOF: after a clean EOF of one source alone, the
\* opposite direction is still copying and both streams are still spliced.
C19_DirectionsIndependent ==
    [][\A p \in ProxyConns : \A r \in Requests :
          ( /\ proxy_stream[p] = "spliced"
            /\ joined_user[p] = Some(r)
            /\ proxy_stream'[p] # "spliced" )
          => \/ "error" \in {user_peer[r], proxy_peer[p]}
             \/ (user_peer[r] = "eof" /\ proxy_peer[p] = "eof")
      ]_vars

\* join_streams has returned for proxy connection p.
Returned(p) == copy[p] \notin {NotCopying, Copy("copying", "copying")}

\* C20: a splice whose join_streams has returned has both its streams
\* closed, one that runs has both spliced; and once the user or the client
\* of a spliced pair has reported EOF or an error, join_streams returns and
\* both streams are closed.
C20_SpliceTerminates ==
    /\ [](\A p \in ProxyConns : \A r \in Requests :
             joined_user[p] = Some(r)
             => IF Returned(p)
                THEN proxy_stream[p] = "closed" /\ user_stream[r] = "closed"
                ELSE proxy_stream[p] = "spliced" /\ user_stream[r] = "spliced")
    /\ \A p \in ProxyConns : \A r \in Requests :
          ( /\ proxy_stream[p] = "spliced"
            /\ joined_user[p] = Some(r)
            /\ (user_peer[r] # "open" \/ proxy_peer[p] # "open") )
          ~> ( /\ Returned(p)
               /\ proxy_stream[p] = "closed"
               /\ user_stream[r] = "closed" )

\* The user of the first request reported EOF while the client's end of the
\* proxy connection was still open: join_streams returned and both streams
\* are closed.
C20_Witness ==
    \E p \in ProxyConns :
        /\ joined_user[p] = Some(1)
        /\ user_peer[1] = "eof"
        /\ proxy_peer[p] = "open"
        /\ copy[p] = Copy("ok", "dropped")
        /\ proxy_stream[p] = "closed"
        /\ user_stream[1] = "closed"

\* C21: a task that is inside a write to a control connection, its frame
\* partly on the wire, does not hold the registry mutex.
C21_NoWriteUnderRegistryLock ==
    \A c \in Conns :
        (Suspended(c) /\ IsSome(writer_lock[c]))
        => registry_lock # writer_lock[c]

\* Task t is at a lock() of a mutex that a task holds.
Blocked(t) ==
    /\ Running(t)
    /\ NextOp(t).op = "lock"
    /\ \E u \in LockTasks : NextOp(t).mutex \in Held(u)

\* The order of the mutexes: user store, token store, registry, pairing
\* table, connection counter, per-record writer.
Rank(m) ==
    IF m = user_db_mutex THEN 1
    ELSE IF m = token_db_mutex THEN 2
    ELSE IF m = active_clients_mutex THEN 3
    ELSE IF m = pending_connections_mutex THEN 4
    ELSE IF m = total_connections_mutex THEN 5
    ELSE 6

\* The tasks that hold the mutex task t waits for (one, or none), and the
\* tasks reached from a set of tasks by following that n times.
WaitsFor(t) ==
    IF Blocked(t) THEN {u \in LockTasks : NextOp(t).mutex \in Held(u)} ELSE {}
RECURSIVE WaitChain(_, _)
WaitChain(S, n) ==
    IF n = 0 THEN {}
    ELSE LET T == UNION {WaitsFor(t) : t \in S} IN T \cup WaitChain(T, n - 1)

\* C22: every task takes a mutex only while the mutexes it holds come before
\* it in the order (registry before pairing table before writer, user store
\* before token store), no mutex is held by two tasks, and in no state does
\* a task wait, through a chain of tasks each waiting for a mutex the next
\* one holds, for itself.
C22_NoLockCycle ==
    /\ \A t \in LockTasks :
          (Running(t) /\ NextOp(t).op = "lock")
          => \A m \in Held(t) : Rank(m) < Rank(NextOp(t).mutex)
    /\ \A t, u \in LockTasks : t # u => Held(t) \cap Held(u) = {}
    /\ \A t \in LockTasks :
          t \notin WaitChain({t}, Cardinality(LockTasks))

\* A router task holds the registry and the writer of connection 1; the
\* session of connection 1 waits for that writer to send its LoginResult
\* while holding the user store and the token store, and the session of
\* connection 2 waits for the registry.
C22_Witness ==
    /\ Held(RouterTask(1)) = {active_clients_mutex, writer_mutex(1)}
    /\ Held(ControlTask(1)) = {user_db_mutex, token_db_mutex}
    /\ Blocked(ControlTask(1))
    /\ Blocked(ControlTask(2))
    /\ NextOp(ControlTask(2)).mutex = active_clients_mutex

\* C23: a record leaves the registry, or gives way to another, only in a
\* step that is the end of its own control session after a read error, the
\* cleanup of a router whose write to that client failed, or an
\* administrative disconnect of that client.
C23_RecordRemovedByThreeEvents ==
    [][\A id \in DOMAIN active_clients :
          ( \/ id \notin DOMAIN active_clients'
            \/ active_clients'[id].writer # active_clients[id].writer )
          => \/ LET c == active_clients[id].writer IN
                /\ cpc[c] = "mark_offline"
                /\ cpc'[c] = "closed"
                /\ client_id[c] = Some(id)
             \/ \E r \in Requests :
                   /\ rpc[r] = "request_proxy_conn"
                   /\ rpc'[r] = "returned_err"
                   /\ chosen_client_id[r] = Some(id)
             \/ disconnect_client(id)
      ]_vars

\* The session tokens the server has returned in a LoginResult.
ReturnedTokens ==
    {t \in DOMAIN token_db :
        \E c \in Conns : \E i \in 1..Len(sent[c]) :
            sent[c][i] = LoginResult(TRUE, None, Some(t))}

\* C24: a control connection whose first command is LoginByToken with a
\* token that the server returned after a password Login is logged in: it
\* is answered LoginResult{success: true} and goes on to wait for Register
\* (unless the answer is that the database failed).
C24_SessionTokenAccepted ==
    [][\A c \in Conns :
          ( /\ cpc[c] = "await_login"
            /\ cpc'[c] # "await_login"
            /\ Len(handshake'[c]) = 1
            /\ handshake'[c][1].type = "LoginByToken"
            /\ handshake'[c][1].token \in ReturnedTokens )
          => \/ /\ authed'[c]
                /\ cpc'[c] = "await_register"
                /\ sent'[c] = Append(sent[c], LoginResult(TRUE, None, None))
             \/ sent'[c] =
                   Append(sent[c], LoginResult(FALSE, Some("Database error"), None))
      ]_vars

\* C25: a step in which a pair task fails changes nothing but that task:
\* main stays in its command loop, the heartbeat task and the other pair
\* tasks are as they were; and main leaves the command loop only when the
\* control channel has reported EOF or an error.
C25_PairFailureIsolated ==
    [][/\ \A id \in DOMAIN pair_task :
             (pair_task[id] # "failed" /\ pair_task'[id] = "failed")
             => /\ frpc_main' = "command_loop"
                /\ heartbeat_task' = heartbeat_task
                /\ frpc_control' = frpc_control
                /\ \A other \in DOMAIN pair_task \ {id} :
                      pair_task'[other] = pair_task[other]
       /\ frpc_main' # frpc_main => frpc_control # "open"
      ]_vars

\* Pair task 1 has failed; main is in its command loop with the control
\* channel open, the heartbeat task is between Heartbeat and SystemInfo,
\* and pair task 2 is splicing.
C25_Witness ==
    /\ pair_task[1] = "failed"
    /\ pair_task[2] = "join_streams"
    /\ frpc_main = "command_loop"
    /\ frpc_control = "open"
    /\ heartbeat_task = "heartbeat_sent"

\* C26: once the control channel has reported EOF or an error, main
\* returns; and when main has returned, the control channel had reported
\* EOF or an error and no task of the client is left running.
C26_ControlEofEndsClient ==
    /\ [](frpc_main = "returned"
            => /\ frpc_control # "open"
               /\ heartbeat_task \in Ended
               /\ \A id \in DOMAIN pair_task : pair_task[id] \in Ended)
    /\ (frpc_control # "open") ~> (frpc_main = "returned")

\* The server closed the control channel while the heartbeat task and pair
\* task 1 were running: main has returned and both were cancelled.
C26_Witness ==
    /\ frpc_control = "eof"
    /\ frpc_main = "returned"
    /\ heartbeat_task = "cancelled"
    /\ pair_task[1] = "cancelled"
    /\ pair_task[2] = "finished"

\* C27: the reads made on a stream return the commands written to it, in
\* order, and have consumed 4 bytes plus the payload for each of them.
RECURSIVE FrameBytes(_, _)
FrameBytes(commands, n) ==
    IF n = 0 THEN 0
    ELSE FrameBytes(commands, n - 1) + 4 + Len(to_vec(commands[n]))

C27_FramingRoundTrip ==
    /\ Len(results) <= Len(written)
    /\ \A k \in 1..Len(results) :
          results[k].ok /\ results[k].value = written[k]
    /\ consumed = FrameBytes(written, Len(results))

\* C28: a step of the control session of connection c (a Heartbeat, a
\* SystemInfo, or the removal after a read error) changes or removes no
\* record but the one whose writer is connection c.
C28_SessionTouchesOwnRecord ==
    [][\A c \in Conns :
          ( \/ \E db_ok \in BOOLEAN : client_loop_remove(c, db_ok)
            \/ \E models \in HeartbeatModels : client_loop_heartbeat(c, models)
            \/ \E metrics \in MetricValues : \E db_ok \in BOOLEAN :
                  client_loop_system_info(c, metrics, db_ok) )
          => \A id \in DOMAIN active_clients :
                ( \/ id \notin DOMAIN active_clients'
                  \/ active_clients'[id] # active_clients[id] )
                => active_clients[id].writer = c
      ]_vars

\* C29: a request that passed the key check ends either with a synthetic
\* HTTP answer or in the write of RequestNewProxyConn to its chosen client,
\* which is then in the registry (a write that fails on a dead connection
\* apart); it never ends without either.
C29_SelectionAndDispatchAtomic ==
    [][\A r \in Requests :
          ( /\ rpc[r] \in {"model_lookup", "select", "send_503",
                           "request_proxy_conn"}
            /\ rpc'[r] \in {"returned_ok", "returned_err"} )
          => \/ IsSome(response'[r])
             \/ /\ rpc[r] = "request_proxy_conn"
                /\ Unwrap(chosen_client_id[r]) \in DOMAIN active_clients
                /\ LET writer ==
                           active_clients[Unwrap(chosen_client_id[r])].writer
                   IN \/ /\ rpc'[r] = "returned_ok"
                         /\ sent'[writer] =
                               Append(sent[writer],
                                      RequestNewProxyConn(Unwrap(proxy_conn_id[r])))
                      \/ /\ rpc'[r] = "returned_err"
                         /\ ~net_up[writer]
      ]_vars

\* C30: a control session in steady state whose record is no longer in the
\* registry (an administrative disconnect removed it) comes to be closed.
C30_DisconnectedSessionCloses ==
    \A c \in Conns :
        ( /\ cpc[c] = "steady"
          /\ \A id \in DOMAIN active_clients : active_clients[id].writer # c )
        ~> (cpc[c] = "closed")

\* C31: a session in steady state whose read fails comes to be closed,
\* and the step that closes it leaves its client id out of the registry,
\* whether the UPDATE that marks the client offline succeeded or failed.
C31_ReadErrorRemovesAndCloses ==
    /\ \A c \in Conns :
          (cpc[c] = "steady" /\ ~net_up[c]) ~> (cpc[c] = "closed")
    /\ [][\A c \in Conns :
             (cpc[c] = "mark_offline" /\ cpc'[c] # "mark_offline")
             => /\ cpc'[c] = "closed"
                /\ Unwrap(client_id[c]) \notin DOMAIN active_clients'
         ]_vars

\* The session of connection 1 registered, its read failed, the UPDATE
\* failed and was logged; the session is closed and the registry is empty.
C31_Witness ==
    /\ cpc[1] = "closed"
    /\ \E i \in 1..Len(handshake[1]) : handshake[1][i].type = "Register"
    /\ "Failed to update client status to offline in database" \in db_errors[1]
    /\ active_clients = EmptyMap

\* C32: a SystemInfo whose upsert fails, read by the session of a
\* registered client, leaves the session in steady state and the registry
\* with the same ids, and the record's metrics are the received ones.
C32_UpsertFailureKeepsSession ==
    [][\A c \in Conns : \A metrics \in MetricValues :
          ( /\ client_loop_system_info(c, metrics, FALSE)
            /\ \E id \in DOMAIN active_clients :
                  /\ active_clients[id].writer = c
                  /\ client_id[c] = Some(id) )
          => /\ cpc'[c] = "steady"
             /\ net_up'[c]
             /\ DOMAIN active_clients' = DOMAIN active_clients
             /\ active_clients'[Unwrap(client_id[c])] =
                   [active_clients[Unwrap(client_id[c])]
                      EXCEPT !.system_info = Some(metrics)]
             /\ "Failed to store client info in database" \in db_errors'[c]
      ]_vars

\* The session of connection 1 has logged a failed upsert; it is in steady
\* state and its record holds the metrics it received.
C32_Witness ==
    /\ cpc[1] = "steady"
    /\ "Failed to store client info in database" \in db_errors[1]
    /\ \E id \in DOMAIN active_clients :
          /\ active_clients[id].writer = 1
          /\ \E metrics \in MetricValues :
                active_clients[id].system_info = Some(metrics)

\* C33: a command that is neither Heartbeat nor SystemInfo, read by a session
\* in steady state, leaves the registry and the pairing table as they were,
\* writes nothing to any client, and leaves the session in steady state with
\* its connection open.
C33_UnexpectedCommandIgnored ==
    [][\A c \in Conns : \A cmd \in UnexpectedCommands :
          client_loop_unexpected(c, cmd)
          => /\ active_clients' = active_clients
             /\ pending_connections' = pending_connections
             /\ sent' = sent
             /\ wire' = wire
             /\ cpc'[c] = "steady"
             /\ net_up'[c]
      ]_vars

\* The session of connection 1, in steady state, last read a Register; a
\* request waits in the pairing table and connection 2 is registered too.
C33_Witness ==
    /\ cpc[1] = "steady"
    /\ warned[1] = Some("Register")
    /\ warned[2] = Some("NewProxyConn")
    /\ cpc[2] = "steady"
    /\ pending_connections # EmptyMap

\* What a proxy connection sends first that names no pair of the pairing
\* table: nothing readable, a command that is no NewProxyConn, or a
\* NewProxyConn whose id is not in the table.
Unpaired(cmd) ==
    \/ ~IsSome(cmd)
    \/ Unwrap(cmd).type # "NewProxyConn"
    \/ Unwrap(cmd).proxy_conn_id \notin DOMAIN pending_connections

\* C34: a proxy connection whose first message names no pair of the pairing
\* table is closed and joined to no user stream; the pairing table and the
\* user streams are as they were.
C34_UnpairedProxyConnClosed ==
    [][\A p \in ProxyConns : \A cmd \in ProxyCommands :
          (handle_proxy_connections(p, cmd) /\ Unpaired(cmd))
          => /\ proxy_stream'[p] = "closed"
             /\ joined_user'[p] = None
             /\ copy'[p] = NotCopying
             /\ pending_connections' = pending_connections
             /\ user_stream' = user_stream
      ]_vars

\* Proxy connection 2 named a pair that proxy connection 1 had taken from
\* the table, and is closed, joined to nothing; the user stream of another
\* request is still pending.
C34_Witness ==
    /\ proxy_stream[2] = "closed"
    /\ IsSome(new_proxy_conn[2])
    /\ new_proxy_conn[2] = new_proxy_conn[1]
    /\ joined_user[2] = None
    /\ \E r \in Requests : user_stream[r] = "pending"
    /\ pending_connections # EmptyMap

\* C35: the router has read no byte off any user stream: a stream that is
\* with the router, in the pairing table or spliced is still at the first
\* byte of its request.
C35_RouterOnlyPeeks ==
    \A r \in Requests : router_read[r] = 0

\* The user stream of request 1 was peeked, parked in the pairing table and
\* spliced to proxy connection 1.
C35_Witness ==
    /\ user_stream[1] = "spliced"
    /\ joined_user[1] = Some(1)
    /\ copy[1] = Copy("copying", "copying")
    /\ router_read[1] = 0

\* The public connections whose router is at the dispatch or has returned.
Dispatched ==
    {r \in Requests :
        rpc[r] \in {"request_proxy_conn", "returned_ok", "returned_err"}}

\* The places of all sent control messages that are RequestNewProxyConn.
Requested ==
    {<<c, i>> \in Conns \X (1..(2 * NumRequests + 4)) :
        i <= Len(sent[c]) /\ sent[c][i].type = "RequestNewProxyConn"}

\* C36: no more pair ids are generated than public connections reached the
\* dispatch or returned, no pair id is requested twice, no more RequestNewProxyConn are
\* sent than pair ids were generated; a pair id is generated only by a
\* router that has none, a RequestNewProxyConn is sent only by the router
\* holding that pair id, which then returns, and a router that returned
\* (after a failed write too) does nothing more.
C36_OneDispatchPerRequest ==
    /\ [](/\ uuid_counter <= Cardinality(Dispatched)
          /\ Cardinality(Requested) <= uuid_counter
          /\ \A x, y \in Requested :
                sent[x[1]][x[2]] = sent[y[1]][y[2]] => x = y)
    /\ [][/\ uuid_counter' # uuid_counter
             => \E r \in Requests :
                   /\ rpc[r] = "select"
                   /\ rpc'[r] = "request_proxy_conn"
                   /\ proxy_conn_id[r] = None
                   /\ uuid_counter' = uuid_counter + 1
                   /\ proxy_conn_id'[r] = Some(uuid_counter')
          /\ \A c \in Conns :
                ( /\ Len(sent'[c]) > Len(sent[c])
                  /\ sent'[c][Len(sent'[c])].type = "RequestNewProxyConn" )
                => \E r \in Requests :
                      /\ rpc[r] = "request_proxy_conn"
                      /\ rpc'[r] = "returned_ok"
                      /\ sent'[c][Len(sent'[c])] =
                            RequestNewProxyConn(Unwrap(proxy_conn_id[r]))
                      /\ active_clients[Unwrap(chosen_client_id[r])].writer = c
          /\ \A r \in Requests :
                rpc[r] \in {"returned_ok", "returned_err"}
                => /\ rpc'[r] = rpc[r]
                   /\ proxy_conn_id'[r] = None
         ]_vars

\* The write of the one RequestNewProxyConn of public connection 1 failed:
\* its router returned, nothing was sent, and a client is still registered.
C36_Witness ==
    /\ rpc[1] = "returned_err"
    /\ rpc[2] = "idle"
    /\ uuid_counter = 1
    /\ Requested = {}
    /\ active_clients # EmptyMap

\* The value of the first header of the request that is named Authorization
\* in any case of its letters, as the bytes the request carried; the empty
\* set when it has none.
AuthorizationValue(req) ==
    LET hits == {i \in 1..Len(req.headers) :
                    to_lowercase(req.headers[i].name) = authorization}
    IN IF hits = {} THEN None
       ELSE Some(req.headers[CHOOSE i \in hits : \A j \in hits : i <= j].value)

\* The value after one leading "Bearer ", in any case of its letters, is
\* removed when present.
WithoutScheme(value) ==
    IF /\ Len(value) >= 7
       /\ to_lowercase(SubSeq(value, 1, 7)) = bearer
    THEN SubSeq(value, 8, Len(value))
    ELSE value

\* C37: a request with a complete head and an Authorization header (named in
\* any case) goes on to routing if and only if the header's value, after one
\* leading "Bearer " in any case is removed when present, equals the
\* configured API key; with any other value it is answered 401 "Invalid API
\* key" and is over.
C37_KeyCheck ==
    [][\A r \in Requests :
          ( /\ rpc[r] = "idle"
            /\ IsSome(request'[r])
            /\ Unwrap(request'[r]).head = "complete"
            /\ IsSome(AuthorizationValue(Unwrap(request'[r]))) )
          => LET value == Unwrap(AuthorizationValue(Unwrap(request'[r])))
             IN IF WithoutScheme(value) = api_key
                THEN /\ rpc'[r] = "model_lookup"
                     /\ response'[r] = None
                     /\ user_stream'[r] = "router"
                ELSE /\ rpc'[r] = "returned_ok"
                     /\ response'[r] =
                           Some(send_http_error_response(401, "Invalid API key"))
                     /\ user_stream'[r] = "closed"
      ]_vars

\* The record of session c is in the registry: its id is a key, and the
\* record under it holds c's writer.
Visible(clients, c) ==
    /\ IsSome(client_id[c])
    /\ contains_key(clients, Unwrap(client_id[c]))
    /\ clients[Unwrap(client_id[c])].writer = c

\* C38: a session that is about to write RegisterResult{success: true} has
\* its record in the registry already, and in every step in which that
\* RegisterResult reaches the client, in part or whole, the record is in the
\* registry before and after the step: a duplicate-id check and the router's
\* selection, which read the registry, find it.
C38_InsertedBeforeResult ==
    /\ [](\A c \in Conns : cpc[c] = "register_ack" => Visible(active_clients, c))
    /\ [][\A c \in Conns :
            ( /\ wire'[c] # wire[c]
              /\ wire'[c][Len(wire'[c])].of = RegisterResult(TRUE, None) )
            => /\ Visible(active_clients, c)
               /\ Visible(active_clients', c)
               /\ client_id'[c] = client_id[c]
         ]_vars

\* Session 1 registered and was sent RegisterResult{success: true}; session 2
\* asked for the same id afterwards and was told it is in use; a public
\* request was dispatched to session 1.
C38_Witness ==
    /\ cpc[1] = "steady"
    /\ Visible(active_clients, 1)
    /\ \E i \in 1..Len(sent[1]) : sent[1][i] = RegisterResult(TRUE, None)
    /\ \E i \in 1..Len(sent[2]) :
          sent[2][i] = RegisterResult(FALSE, Some("Client ID already in use"))
    /\ \E i \in 1..Len(sent[1]) : sent[1][i].type = "RequestNewProxyConn"

\* The pair is off the pairing table, a proxy connection that announced it
\* took its user stream, and that user stream is closed.
Consumed(id) ==
    /\ ~pending_holds(pending_connections, id)
    /\ \E p \in ProxyConns :
          /\ new_proxy_conn[p] = Some(id)
          /\ IsSome(joined_user[p])
          /\ user_stream[Unwrap(joined_user[p])] = "closed"

\* C39: a pair task runs only for a RequestNewProxyConn the server sent; it
\* writes nothing on its proxy connection before that connection is open, and
\* by the time it dials the local service it has written exactly one command
\* there, NewProxyConn with the pair id of the request, and it never writes a
\* second one; so a task whose local dial was refused has announced its pair,
\* and the server then takes the pair off the pairing table and closes its
\* user stream.
C39_NotifyBeforeLocalDial ==
    /\ [](\A id \in 1..NumRequests :
            /\ pair_task[id] # "none"
               => \E c \in Conns : \E i \in 1..Len(sent[c]) :
                     sent[c][i] = RequestNewProxyConn(id)
            /\ pair_task[id] \in {"none", "connect_proxy", "write_new_proxy_conn"}
               => /\ proxy_written[id] = <<>>
                  /\ local_stream[id] = "none"
            /\ pair_task[id] \in {"connect_local", "join_streams", "finished"}
               => proxy_written[id] = <<NewProxyConn(id)>>
            /\ local_stream[id] # "none"
               => proxy_written[id] = <<NewProxyConn(id)>>
            /\ Len(proxy_written[id]) <= 1)
    /\ [][\A id \in 1..NumRequests :
            proxy_written'[id] # proxy_written[id]
            => /\ pair_task[id] = "write_new_proxy_conn"
               /\ pair_task'[id] = "connect_local"
               /\ proxy_written'[id] = <<NewProxyConn(id)>>
               /\ local_stream[id] = "none"
         ]_vars
    /\ \A id \in 1..NumRequests :
          (local_stream[id] = "refused") ~> Consumed(id)

\* The local dial of pair 1 was refused after its NewProxyConn was written:
\* the server took the pair and closed its user stream, nothing is pending
\* for it; pair 2 is spliced.
C39_Witness ==
    /\ pair_task[1] = "failed"
    /\ local_stream[1] = "refused"
    /\ proxy_written[1] = <<NewProxyConn(1)>>
    /\ Consumed(1)
    /\ pair_task[2] = "join_streams"
    /\ \E p \in ProxyConns :
          /\ new_proxy_conn[p] = Some(2)
          /\ proxy_stream[p] = "spliced"

====
